---- MODULE Spec2Model ----
(***************************************************************************)
(* Model of the optimization-orchestration core of pyfreecoil:             *)
(*   - QueuePool / FctPool   (src/pyfreecoil/utils/manage_pool.py)         *)
(*   - _FunctionEval monitor (src/pyfreecoil/optimizer/algorithm.py)       *)
(*   - get_solve and the five backend adapters (src/pyfreecoil/optimizer)  *)
(*   - the design encoder    (src/pyfreecoil/design/encoding_design.py)    *)
(* Each subsystem has its own specification over the shared variables.     *)
(***************************************************************************)
EXTENDS Integers, Sequences, FiniteSets, TLC

VARIABLES
    \* ---- QueuePool.get_loop ----
    q_pc,         \* position of the call: idle / serial / collect_init / poll / join / returned / raised
    q_cfg,        \* [n_parallel, delay_collect, delay_timeout]
    q_args,       \* <<list, list>>: the argument lists handed to get_loop
    q_status,     \* item -> queued / running / ready / taken (imap_unordered tasks)
    q_ready,      \* the completion stream: results in the order the workers finished
    q_idx,        \* serial mode: number of items already looped over
    q_n_count,    \* n_count of the collector
    q_out_list,   \* out_list of the collector
    q_delay,      \* time.time() - timestamp, saturated just above delay_collect
    q_log,        \* the calls received by fct_collect: <<[batch, n_count, n_total, added]>>
    q_ex,         \* _ThreadException.ex
    q_timeouts,   \* number of poll timeouts so far
    q_calls,      \* item -> number of times the compute function was invoked on it
    \* ---- FctPool.get_loop ----
    f_pc,         \* idle / parallel / returned / raised (get_loop), fct_returned / fct_raised (get_fct)
    f_cfg,        \* [n_parallel]
    f_args,       \* <<list, list>>
    f_status,     \* item -> queued / running / done (imap tasks)
    f_done,       \* item indices in the order the workers finished
    f_out,        \* the list built by get_loop
    f_calls,      \* item -> number of times the compute function was invoked on it
    f_store,      \* the frames fct_obj handed to add_design
    f_ret,        \* what fct_obj returned to the optimizer: <<>> or <<obj_tmp>>
    \* ---- _FunctionEval (the convergence monitor) ----
    m_cfg,        \* the convergence parameters: n_eval_max, n_eval_conv, n_eval_init, tol_conv_cmp
    mon,          \* the fields of the _FunctionEval object
    m_lock,       \* value of the threading.Semaphore()
    m_pc,         \* thread -> idle / acquire / load / store / release
    m_call,       \* thread -> the call in progress: [op, vals, n]
    m_snap,       \* thread -> the fields the thread has read
    m_conv,       \* what the last get_convergence read and returned: <<[n, hist, ret]>>
    m_tot,        \* totals over the calls issued: [obj, cond, log, calls]
    \* ---- get_solve and the backend adapters ----
    s_pc,         \* get_solve: idle / start / adapter / returned / raised
    s_par,        \* [method, n_parallel, n_init, recompute, cond]: data_solver and x_init
    a_pc,         \* position of the adapter's get_solve and of the backend's main loop
    a_w,          \* worker thread -> [pc, obj, exc]: the fitness job it runs
    a_n,          \* backend bookkeeping: solutions left to evaluate / constraint pass done
    a_stop,       \* the backend has been told to stop (callback value, study.stop())
    a_exc,        \* the exception travelling up the adapter's main thread
    s_cnt,        \* vectors handed to the compute functions: [obj, cond]
    a_pop,        \* objective value of the solutions of the population being evaluated
    s_end,        \* how the backend run ended: none / converged / budget / error
    s_log,        \* the driver's own log calls: [init, final]
    \* ---- the design encoder ----
    e_pc,           \* position of the encoder call under study
    data_encoding,  \* the encoding: n_wdg, mask counts, layer_list, value and norm ranges
    x_fixed,        \* the fixed mask: a value (fixed variable) or NaN (free variable) per position
    x_free,         \* a vector of free variables
    x_all,          \* a full design vector
    data_coil,      \* a geometry: [n_wdg, coord_wdg, width_wdg, layer_wdg]
    e_out,          \* what the last encoder call returned or raised
    e_in,           \* the geometry get_resample was called with
    \* ---- _PostgreSql (reconnect and retry) ----
    d_pc,         \* position inside wrap_function
    d_cfg,        \* [robust, retry]
    d_i,          \* the loop variable i of the retry loop
    d_conn,       \* self.conn: [id, open]
    d_log,        \* what was done so far: <<[ev, conn, res]>>
    d_ex,         \* the exception bound to ex: <<>> or <<[ex, at]>>
    d_out         \* what wrap_function returned or raised

qvars == <<q_pc, q_cfg, q_args, q_status, q_ready, q_idx, q_n_count, q_out_list,
           q_delay, q_log, q_ex, q_timeouts, q_calls>>
fvars == <<f_pc, f_cfg, f_args, f_status, f_done, f_out, f_calls, f_store, f_ret>>
mvars == <<m_cfg, mon, m_lock, m_pc, m_call, m_snap, m_conv, m_tot>>
svars == <<s_pc, s_par, a_pc, a_w, a_n, a_stop, a_exc, a_pop, s_cnt, s_end, s_log>>
evars == <<e_pc, data_encoding, x_fixed, x_free, x_all, data_coil, e_out, e_in>>
dvars == <<d_pc, d_cfg, d_i, d_conn, d_log, d_ex, d_out>>
vars == <<qvars, fvars, mvars, svars, evars, dvars>>

----------------------------------------------------------------------------
\* Bounds of the model.
MaxItems == 3
MaxWorkers == 2
MaxTimeouts == 1
MaxCalls == 3
MaxSeqCalls == 3
MaxRecords == 3

ArgVals == 0..2

\* Python's None
None == <<>>

Min2(a, b) == IF a <= b THEN a ELSE b
Max2(a, b) == IF a >= b THEN a ELSE b

RECURSIVE SumLen(_)
\* total number of results in a sequence of batches
SumLen(batches) ==
    IF batches = <<>> THEN 0
    ELSE Len(Head(batches)) + SumLen(Tail(batches))

RECURSIVE Flatten(_)
Flatten(batches) ==
    IF batches = <<>> THEN <<>>
    ELSE Head(batches) \o Flatten(Tail(batches))

\* zip(*args) for two argument lists: stops at the shortest list
Zip(args) ==
    [i \in 1..Min2(Len(args[1]), Len(args[2])) |-> <<args[1][i], args[2][i]>>]

\* The caller-supplied compute function (a deterministic test function):
\* it raises for a first argument of 0; otherwise it computes a design with
\* the objective value val, and rejects the design (None in place of the record)
\* when the arguments differ in parity.
FctCompute(x, y) ==
    IF x = 0 THEN [kind |-> "raise", val |-> 0]
    ELSE IF (x + y) % 2 = 1 THEN [kind |-> "none", val |-> 3 * x + y]
    ELSE [kind |-> "ok", val |-> 3 * x + y]

\* the design record of an outcome, None when the design was rejected
\* (design = None when obj >= obj_keep)
DesignOf(out) == IF out.kind = "none" THEN None ELSE [obj |-> out.val]

\* a filter that keeps every item
FilterNoneKeep(design) == design

\* list(filter(None, design)): the items that are not None, in order
FilterNone(design) == SelectSeq(design, LAMBDA d : d # None)

\* _fct_call_pool: FCT_COMPUTE(*args) in a worker process
FctCallPool(args_tmp) == FctCompute(args_tmp[1], args_tmp[2])

ArgLists == UNION {[1..n -> ArgVals] : n \in 0..MaxItems}
\* second argument list: a constant repeated (as [cond_solve] * n in the callers)
TileLists == {[i \in 1..n |-> 1] : n \in {MaxItems - 1, MaxItems}}

\* delay_collect and delay_timeout, in time units
DelayCollectVals == {0, 1}
DelayTimeoutVals == {1}

----------------------------------------------------------------------------
\* QueuePool

QTotal == Len(Zip(q_args))

\* the other subsystems are not running
QOff ==
    /\ q_pc = "off" /\ q_cfg = None /\ q_args = None
    /\ q_status = <<>> /\ q_ready = <<>> /\ q_idx = 0 /\ q_n_count = 0
    /\ q_out_list = <<>> /\ q_delay = 0 /\ q_log = <<>>
    /\ q_ex = "None" /\ q_timeouts = 0 /\ q_calls = <<>>

FOff ==
    /\ f_pc = "off" /\ f_cfg = None /\ f_args = None /\ f_status = <<>>
    /\ f_done = <<>> /\ f_out = <<>> /\ f_calls = <<>>
    /\ f_store = <<>> /\ f_ret = <<>>

MOff ==
    /\ m_cfg = None /\ mon = None /\ m_lock = 0 /\ m_pc = <<>> /\ m_call = <<>>
    /\ m_snap = <<>> /\ m_conv = <<>> /\ m_tot = None

SOff ==
    /\ s_pc = "off" /\ s_par = None /\ a_pc = "off" /\ a_w = <<>> /\ a_n = 0
    /\ a_stop = FALSE /\ a_exc = "None" /\ a_pop = 0 /\ s_cnt = None /\ s_end = "none"
    /\ s_log = None

EOff ==
    /\ e_pc = "off" /\ data_encoding = None /\ x_fixed = None /\ x_free = None
    /\ x_all = None /\ data_coil = None /\ e_out = None /\ e_in = None

DOff ==
    /\ d_pc = "off" /\ d_cfg = None /\ d_i = 0 /\ d_conn = None /\ d_log = <<>>
    /\ d_ex = <<>> /\ d_out = None

QIdle ==
    /\ q_pc = "idle"
    /\ q_status = <<>> /\ q_ready = <<>> /\ q_idx = 0 /\ q_n_count = 0
    /\ q_out_list = <<>> /\ q_delay = 0 /\ q_log = <<>>
    /\ q_ex = "None" /\ q_timeouts = 0
    /\ q_calls = [i \in 1..QTotal |-> 0]

InitQueue ==
    /\ EOff
    /\ DOff
    /\ q_cfg \in [n_parallel : 0..MaxWorkers, delay_collect : DelayCollectVals,
                  delay_timeout : DelayTimeoutVals]
    /\ q_args \in {<<a, b>> : a \in ArgLists, b \in TileLists}
    /\ QIdle
    /\ FOff
    /\ MOff
    /\ SOff

\* dataset._run_collect: the rows of the frame handed to obj_sql.add_design
RunCollect(design) == FilterNone([k \in 1..Len(design) |-> DesignOf(design[k].out)])

\* fct_collect(out_list, n_count, n_total): the callback records its arguments
\* and what it added to the database
QCollect(out_list, n_count, n_total) ==
    Append(q_log, [batch |-> out_list, n_count |-> n_count, n_total |-> n_total,
                   added |-> RunCollect(out_list)])

\* QueuePool.get_loop: dispatch on the worker count; with workers, imap_unordered
\* submits every item and the collector thread is started.
QGetLoop ==
    /\ q_pc = "idle"
    /\ IF q_cfg.n_parallel = 0
       THEN /\ q_pc' = "serial"
            /\ UNCHANGED q_status
       ELSE /\ q_pc' = "collect_init"
            /\ q_status' = [i \in 1..QTotal |-> "queued"]
    /\ UNCHANGED <<q_cfg, q_args, q_ready, q_idx, q_n_count, q_out_list, q_delay, q_log, q_ex, q_timeouts>>
    /\ UNCHANGED <<fvars, mvars, svars, q_calls, evars, dvars>>

\* a serial loop that keeps the results and hands them over in one batch after
\* the last item
QSerialStepBatched(ok) ==
    /\ q_pc = "serial"
    /\ IF q_idx < QTotal
       THEN LET out == FctCallPool(Zip(q_args)[q_idx + 1])
                n == q_n_count + 1
                all == Append(q_out_list, [idx |-> q_idx + 1, out |-> out])
            IN  /\ q_idx' = q_idx + 1
                /\ q_n_count' = n
                /\ IF out.kind = "raise"
                   THEN /\ ok
                        /\ q_pc' = "raised"
                        /\ q_ex' = "ComputeError"
                        /\ UNCHANGED <<q_log, q_out_list>>
                   ELSE IF ok
                   THEN /\ IF n = QTotal
                           THEN q_log' = QCollect(all, n, QTotal) /\ q_out_list' = <<>>
                           ELSE q_out_list' = all /\ UNCHANGED q_log
                        /\ UNCHANGED <<q_pc, q_ex>>
                   ELSE /\ q_pc' = "raised"
                        /\ q_ex' = "CollectError"
                        /\ UNCHANGED <<q_log, q_out_list>>
       ELSE /\ ok
            /\ q_pc' = "returned"
            /\ UNCHANGED <<q_idx, q_n_count, q_log, q_ex, q_out_list>>
    /\ UNCHANGED <<q_cfg, q_args, q_status, q_ready, q_delay, q_timeouts>>
    /\ q_calls' = IF q_idx < QTotal THEN [q_calls EXCEPT ![q_idx + 1] = @ + 1]
                  ELSE q_calls
    /\ UNCHANGED <<fvars, mvars, svars, evars, dvars>>

\* a serial loop that counts the item only after it has been collected
QSerialStepLateCount(ok) ==
    /\ q_pc = "serial"
    /\ IF q_idx < QTotal
       THEN LET out == FctCallPool(Zip(q_args)[q_idx + 1])
            IN  /\ q_idx' = q_idx + 1
                /\ q_n_count' = q_n_count + 1
                /\ IF out.kind = "raise"
                   THEN /\ ok
                        /\ q_pc' = "raised"
                        /\ q_ex' = "ComputeError"
                        /\ UNCHANGED q_log
                   ELSE IF ok
                   THEN /\ q_log' = QCollect(<<[idx |-> q_idx + 1, out |-> out]>>,
                                             q_n_count, QTotal)
                        /\ UNCHANGED <<q_pc, q_ex>>
                   ELSE /\ q_pc' = "raised"
                        /\ q_ex' = "CollectError"
                        /\ UNCHANGED q_log
       ELSE /\ ok
            /\ q_pc' = "returned"
            /\ UNCHANGED <<q_idx, q_n_count, q_log, q_ex>>
    /\ UNCHANGED <<q_cfg, q_args, q_status, q_ready, q_out_list, q_delay, q_timeouts>>
    /\ q_calls' = IF q_idx < QTotal THEN [q_calls EXCEPT ![q_idx + 1] = @ + 1]
                  ELSE q_calls
    /\ UNCHANGED <<fvars, mvars, svars, evars, dvars>>

\* QueuePool._get_map_serial: one iteration of the loop, or its end; the
\* callback returns (ok) or raises, which leaves get_loop at once
QSerialStep(ok) ==
    /\ q_pc = "serial"
    /\ IF q_idx < QTotal
       THEN LET out == FctCallPool(Zip(q_args)[q_idx + 1])
                n == q_n_count + 1
            IN  /\ q_idx' = q_idx + 1
                /\ q_n_count' = n
                /\ IF out.kind = "raise"
                   THEN /\ ok
                        /\ q_pc' = "raised"
                        /\ q_ex' = "ComputeError"
                        /\ UNCHANGED q_log
                   ELSE IF ok
                   THEN /\ q_log' = QCollect(<<[idx |-> q_idx + 1, out |-> out]>>, n, QTotal)
                        /\ UNCHANGED <<q_pc, q_ex>>
                   ELSE /\ q_pc' = "raised"
                        /\ q_ex' = "CollectError"
                        /\ UNCHANGED q_log
       ELSE /\ ok
            /\ q_pc' = "returned"
            /\ UNCHANGED <<q_idx, q_n_count, q_log, q_ex>>
    /\ UNCHANGED <<q_cfg, q_args, q_status, q_ready, q_out_list, q_delay, q_timeouts>>
    /\ q_calls' = IF q_idx < QTotal THEN [q_calls EXCEPT ![q_idx + 1] = @ + 1]
                  ELSE q_calls
    /\ UNCHANGED <<fvars, mvars, svars, evars, dvars>>

\* a worker of the pool takes the next queued task (chunksize=1, in input order)
QWorkerStart(i) ==
    /\ q_pc \in {"collect_init", "poll", "join"}
    /\ q_status[i] = "queued"
    /\ \A j \in 1..(i - 1) : q_status[j] # "queued"
    /\ Cardinality({j \in DOMAIN q_status : q_status[j] = "running"}) < q_cfg.n_parallel
    /\ q_status' = [q_status EXCEPT ![i] = "running"]
    /\ UNCHANGED <<q_pc, q_cfg, q_args, q_ready, q_idx, q_n_count, q_out_list,
                   q_delay, q_log, q_ex, q_timeouts>>
    /\ q_calls' = [q_calls EXCEPT ![i] = @ + 1]
    /\ UNCHANGED <<fvars, mvars, svars, evars, dvars>>

\* a worker finishes its task: the result enters the unordered completion stream
QWorkerDone(i) ==
    /\ q_pc \in {"collect_init", "poll", "join"}
    /\ q_status[i] = "running"
    /\ q_status' = [q_status EXCEPT ![i] = "ready"]
    /\ q_ready' = Append(q_ready, [idx |-> i, out |-> FctCallPool(Zip(q_args)[i])])
    /\ UNCHANGED <<q_pc, q_cfg, q_args, q_idx, q_n_count, q_out_list,
                   q_delay, q_log, q_ex, q_timeouts>>
    /\ UNCHANGED <<fvars, mvars, svars, q_calls, evars, dvars>>

\* _ThreadException.loop, lines 60-66: init and the immediate first collect;
\* an exception of the callback ends loop() and is kept by run() (lines 90-94)
QCollectInit(ok) ==
    /\ q_pc = "collect_init"
    /\ q_n_count' = 0
    /\ q_out_list' = <<>>
    /\ q_delay' = 0
    /\ IF ok
       THEN /\ q_log' = QCollect(<<>>, 0, QTotal)
            /\ q_pc' = "poll"
            /\ UNCHANGED q_ex
       ELSE /\ q_ex' = "CollectError"
            /\ q_pc' = "join"
            /\ UNCHANGED q_log
    /\ UNCHANGED <<q_cfg, q_args, q_status, q_ready, q_idx, q_timeouts>>
    /\ UNCHANGED <<fvars, mvars, svars, q_calls, evars, dvars>>

\* line 81: the time since the last flush after waiting dt more (only its
\* comparison with delay_collect is ever used, so it is kept saturated)
QElapse(dt) == Min2(q_delay + dt, q_cfg.delay_collect + 1)

\* a collector that flushes without emptying its accumulator
QFlushKeep(out_list, n_count, delay_now, ok) ==
    IF delay_now > q_cfg.delay_collect
    THEN IF ok
         THEN /\ q_log' = QCollect(out_list, n_count, QTotal)
              /\ q_delay' = 0
              /\ q_out_list' = out_list
              /\ UNCHANGED <<q_pc, q_ex>>
         ELSE /\ q_ex' = "CollectError"
              /\ q_pc' = "join"
              /\ q_out_list' = out_list
              /\ q_delay' = delay_now
              /\ UNCHANGED q_log
    ELSE /\ ok
         /\ q_out_list' = out_list
         /\ q_delay' = delay_now
         /\ UNCHANGED <<q_log, q_pc, q_ex>>

\* lines 80-85: collect when the flush interval has elapsed; an exception of
\* the callback ends loop() and is kept by run() (lines 90-94)
QFlush(out_list, n_count, delay_now, ok) ==
    IF delay_now > q_cfg.delay_collect
    THEN IF ok
         THEN /\ q_log' = QCollect(out_list, n_count, QTotal)
              /\ q_delay' = 0
              /\ q_out_list' = <<>>
              /\ UNCHANGED <<q_pc, q_ex>>
         ELSE /\ q_ex' = "CollectError"
              /\ q_pc' = "join"
              /\ q_out_list' = out_list
              /\ q_delay' = delay_now
              /\ UNCHANGED q_log
    ELSE /\ ok
         /\ q_out_list' = out_list
         /\ q_delay' = delay_now
         /\ UNCHANGED <<q_log, q_pc, q_ex>>

\* lines 69-85, call_iter.next returns a result after waiting dt (or re-raises
\* the exception of the task, which ends the loop and is kept by run())
QPollGet(dt, ok) ==
    /\ q_pc = "poll"
    /\ q_ready # <<>>
    /\ LET r == Head(q_ready)
       IN  /\ q_ready' = Tail(q_ready)
           /\ q_status' = [q_status EXCEPT ![r.idx] = "taken"]
           /\ IF r.out.kind = "raise"
              THEN /\ ok
                   /\ q_ex' = "ComputeError"
                   /\ q_pc' = "join"
                   /\ UNCHANGED <<q_n_count, q_out_list, q_log, q_delay>>
              ELSE /\ q_n_count' = q_n_count + 1
                   /\ QFlush(Append(q_out_list, r), q_n_count + 1, QElapse(dt), ok)
    /\ UNCHANGED <<q_cfg, q_args, q_idx, q_timeouts>>
    /\ UNCHANGED <<fvars, mvars, svars, q_calls, evars, dvars>>

\* a collector that takes a timeout of the poll for a failure of the run
QPollTimeoutFail(ok) ==
    /\ q_pc = "poll"
    /\ q_ready = <<>>
    /\ \E i \in DOMAIN q_status : q_status[i] # "taken"
    /\ q_timeouts < MaxTimeouts
    /\ ok
    /\ q_timeouts' = q_timeouts + 1
    /\ q_ex' = "TimeoutError"
    /\ q_pc' = "join"
    /\ UNCHANGED <<q_out_list, q_delay, q_log>>
    /\ UNCHANGED <<q_cfg, q_args, q_status, q_ready, q_idx, q_n_count>>
    /\ UNCHANGED <<fvars, mvars, svars, q_calls, evars, dvars>>

\* lines 75-76: nothing arrived within delay_timeout: "not yet ready"
QPollTimeout(ok) ==
    /\ q_pc = "poll"
    /\ q_ready = <<>>
    /\ \E i \in DOMAIN q_status : q_status[i] # "taken"
    /\ q_timeouts < MaxTimeouts
    /\ q_timeouts' = q_timeouts + 1
    /\ QFlush(q_out_list, q_n_count, QElapse(q_cfg.delay_timeout), ok)
    /\ UNCHANGED <<q_cfg, q_args, q_status, q_ready, q_idx, q_n_count>>
    /\ UNCHANGED <<fvars, mvars, svars, q_calls, evars, dvars>>

\* lines 77-78 and 87-88: the stream is exhausted, collect what remains
QPollStop(ok) ==
    /\ q_pc = "poll"
    /\ \A i \in DOMAIN q_status : q_status[i] = "taken"
    /\ IF ok
       THEN q_log' = QCollect(q_out_list, q_n_count, QTotal) /\ UNCHANGED q_ex
       ELSE q_ex' = "CollectError" /\ UNCHANGED q_log
    /\ q_pc' = "join"
    /\ UNCHANGED <<q_cfg, q_args, q_status, q_ready, q_idx, q_n_count, q_out_list,
                   q_delay, q_timeouts>>
    /\ UNCHANGED <<fvars, mvars, svars, q_calls, evars, dvars>>

\* a join that drops the exception kept by the thread
QJoinDrop ==
    /\ q_pc = "join"
    /\ q_pc' = "returned"
    /\ UNCHANGED <<q_cfg, q_args, q_status, q_ready, q_idx, q_n_count, q_out_list,
                   q_delay, q_log, q_ex, q_timeouts>>
    /\ UNCHANGED <<fvars, mvars, svars, q_calls, evars, dvars>>

\* _get_map_parallel, lines 139-143: join the thread, re-raise its exception
QJoin ==
    /\ q_pc = "join"
    /\ q_pc' = IF q_ex # "None" THEN "raised" ELSE "returned"
    /\ UNCHANGED <<q_cfg, q_args, q_status, q_ready, q_idx, q_n_count, q_out_list,
                   q_delay, q_log, q_ex, q_timeouts>>
    /\ UNCHANGED <<fvars, mvars, svars, q_calls, evars, dvars>>

NextQueue ==
    \/ QGetLoop
    \/ \E ok \in BOOLEAN : QSerialStep(ok)
    \/ \E i \in 1..MaxItems : i \in DOMAIN q_status /\ QWorkerStart(i)
    \/ \E i \in 1..MaxItems : i \in DOMAIN q_status /\ QWorkerDone(i)
    \/ \E ok \in BOOLEAN : QCollectInit(ok)
    \/ \E dt \in 0..q_cfg.delay_timeout, ok \in BOOLEAN : QPollGet(dt, ok)
    \/ \E ok \in BOOLEAN : QPollTimeout(ok)
    \/ \E ok \in BOOLEAN : QPollStop(ok)
    \/ QJoin

SpecQueue == InitQueue /\ [][NextQueue]_vars

\* ---- properties of QueuePool ----

QBatches == [k \in 1..Len(q_log) |-> q_log[k].batch]
QDelivered == Flatten(QBatches)

\* C1: every result is delivered to the collect callback in exactly one batch:
\* at each invocation processed_count is the number of results delivered so far
\* (the current batch included), and after a normal return the batches hold each
\* submitted item's result once, total_count results in all.
C1_ExactlyOnce ==
    LET batches == QBatches
        delivered == QDelivered
    IN  /\ \A k \in 1..Len(q_log) :
              /\ q_log[k].n_count = SumLen(SubSeq(batches, 1, k))
              /\ q_log[k].n_total = QTotal
        /\ \A i, j \in 1..Len(delivered) :
              delivered[i].idx = delivered[j].idx => i = j
        /\ q_pc = "returned" =>
              /\ Len(delivered) = QTotal
              /\ \A i \in 1..QTotal : \E j \in 1..Len(delivered) :
                    delivered[j] = [idx |-> i, out |-> FctCompute(q_args[1][i], q_args[2][i])]

\* a run with workers that returned after delivering two results, finished out of
\* input order, in batches separated by an intermediate flush
C1_Witness ==
    /\ q_pc = "returned"
    /\ q_cfg.n_parallel > 0
    /\ QTotal >= 2
    /\ Len(q_log) >= 3
    /\ \E k \in 2..(Len(q_log) - 1) : q_log[k].batch # <<>>
    /\ QDelivered[1].idx > QDelivered[2].idx

\* C2 as stated: the processed counts never decrease, the first invocation
\* carries 0 and the last one before a normal return carries total_count, with
\* zero workers as well as with a worker group.
C2_FirstIsZero ==
    /\ \A k \in 1..(Len(q_log) - 1) : q_log[k].n_count <= q_log[k + 1].n_count
    /\ q_log # <<>> => q_log[1].n_count = 0
    /\ q_pc = "returned" => q_log # <<>> /\ q_log[Len(q_log)].n_count = QTotal

\* C2 as amended: the processed counts never decrease; with a worker group the
\* first invocation carries 0 and the last one before a normal return carries
\* total_count; with zero workers there is no initial empty flush: invocation k
\* carries k with a batch of one result, so the first carries 1, the last one
\* before a normal return carries total_count, and no invocation is made when
\* there is no item.
C2_MonotoneCounts ==
    /\ \A k \in 1..(Len(q_log) - 1) : q_log[k].n_count <= q_log[k + 1].n_count
    /\ q_pc # "off" /\ q_cfg.n_parallel > 0 =>
          /\ q_log # <<>> => q_log[1].n_count = 0
          /\ q_pc = "returned" => q_log # <<>> /\ q_log[Len(q_log)].n_count = QTotal
    /\ q_pc # "off" /\ q_cfg.n_parallel = 0 =>
          /\ \A k \in 1..Len(q_log) : q_log[k].n_count = k /\ Len(q_log[k].batch) = 1
          /\ q_pc = "returned" => Len(q_log) = QTotal

\* a zero-worker run that returned after collecting two items or more
C2_Witness ==
    /\ q_pc = "returned"
    /\ q_cfg.n_parallel = 0
    /\ QTotal >= 2
    /\ q_log[1].n_count = 1
    /\ q_log[Len(q_log)].n_count = QTotal

----------------------------------------------------------------------------
\* FctPool

FTotal == Len(Zip(f_args))

InitFct ==
    /\ EOff
    /\ DOff
    /\ f_cfg \in [n_parallel : 0..MaxWorkers]
    /\ f_args \in {<<a, b>> : a \in ArgLists, b \in TileLists}
    /\ f_pc = "idle" /\ f_status = <<>> /\ f_done = <<>> /\ f_out = <<>>
    /\ f_calls = [i \in 1..FTotal |-> 0]
    /\ f_store = <<>> /\ f_ret = <<>>
    /\ QOff
    /\ MOff
    /\ SOff

\* FctPool.get_loop, lines 222-225: with zero workers the list comprehension runs
\* in the caller (it raises at the first item whose compute call raises); with
\* workers imap submits one task per item.
FGetLoop ==
    /\ f_pc = "idle"
    /\ IF f_cfg.n_parallel = 0
       THEN LET out == [i \in 1..FTotal |-> FctCallPool(Zip(f_args)[i])]
                bad == {i \in 1..FTotal : out[i].kind = "raise"}
            IN  /\ IF bad # {}
                   THEN f_pc' = "raised" /\ UNCHANGED <<f_out, f_status>>
                   ELSE f_pc' = "returned" /\ f_out' = out /\ UNCHANGED f_status
                /\ f_calls' = [i \in 1..FTotal |->
                                 IF \E j \in bad : j < i THEN 0 ELSE 1]
       ELSE /\ f_pc' = "parallel"
            /\ f_status' = [i \in 1..FTotal |-> "queued"]
            /\ UNCHANGED <<f_out, f_calls>>
    /\ UNCHANGED <<f_cfg, f_args, f_done>>
    /\ UNCHANGED <<qvars, mvars, svars, evars, dvars, f_store, f_ret>>

\* a worker of the pool takes the next queued task (chunksize=1, in input order)
FWorkerStart(i) ==
    /\ f_pc = "parallel"
    /\ f_status[i] = "queued"
    /\ \A j \in 1..(i - 1) : f_status[j] # "queued"
    /\ Cardinality({j \in DOMAIN f_status : f_status[j] = "running"}) < f_cfg.n_parallel
    /\ f_status' = [f_status EXCEPT ![i] = "running"]
    /\ UNCHANGED <<f_pc, f_cfg, f_args, f_done, f_out>>
    /\ f_calls' = [f_calls EXCEPT ![i] = @ + 1]
    /\ UNCHANGED <<qvars, mvars, svars, evars, dvars, f_store, f_ret>>

\* a worker finishes its task, in any order
FWorkerDone(i) ==
    /\ f_pc = "parallel"
    /\ f_status[i] = "running"
    /\ f_status' = [f_status EXCEPT ![i] = "done"]
    /\ f_done' = Append(f_done, i)
    /\ UNCHANGED <<f_pc, f_cfg, f_args, f_out>>
    /\ UNCHANGED <<qvars, mvars, svars, f_calls, evars, dvars, f_store, f_ret>>

\* an iterator that yields the results in the order the workers finished
FImapNextUnordered ==
    IF Len(f_out) < Len(f_done) THEN f_done[Len(f_out) + 1] ELSE Len(f_out) + 1

\* the item whose result imap's iterator yields next: the one after those already
\* yielded, once it is done (results that finish early wait for their turn)
FImapNext == Len(f_out) + 1

\* line 226: list(out) takes one more result from the imap iterator, re-raises a
\* task's exception, and returns when the iterator is exhausted
FListNext ==
    /\ f_pc = "parallel"
    /\ IF Len(f_out) = FTotal
       THEN f_pc' = "returned" /\ UNCHANGED f_out
       ELSE LET i == FImapNext
                out == FctCallPool(Zip(f_args)[i])
            IN  /\ i \in DOMAIN f_status
                /\ f_status[i] = "done"
                /\ IF out.kind = "raise"
                   THEN f_pc' = "raised" /\ UNCHANGED f_out
                   ELSE f_out' = Append(f_out, out) /\ UNCHANGED f_pc
    /\ UNCHANGED <<f_cfg, f_args, f_status, f_done>>
    /\ UNCHANGED <<qvars, mvars, svars, f_calls, evars, dvars, f_store, f_ret>>

\* a get_fct that gives no result when the compute call raises
FGetFctSwallow ==
    /\ f_pc = "idle"
    /\ FTotal >= 1
    /\ LET out == FctCallPool(Zip(f_args)[1])
       IN  /\ f_pc' = "fct_returned"
           /\ f_out' = IF out.kind = "raise" THEN <<>> ELSE <<out>>
    /\ f_calls' = [f_calls EXCEPT ![1] = @ + 1]
    /\ UNCHANGED <<f_cfg, f_args, f_status, f_done>>
    /\ UNCHANGED <<qvars, mvars, svars, evars, dvars, f_store, f_ret>>

\* FctPool.get_fct, lines 205-215, on the first tuple of arguments: a direct
\* call with zero workers, otherwise pool.apply, which blocks for the result of
\* one task and re-raises its exception
FGetFct ==
    /\ f_pc = "idle"
    /\ FTotal >= 1
    /\ LET out == FctCallPool(Zip(f_args)[1])
       IN  IF out.kind = "raise"
           THEN f_pc' = "fct_raised" /\ UNCHANGED f_out
           ELSE f_pc' = "fct_returned" /\ f_out' = <<out>>
    /\ f_calls' = [f_calls EXCEPT ![1] = @ + 1]
    /\ UNCHANGED <<f_cfg, f_args, f_status, f_done>>
    /\ UNCHANGED <<qvars, mvars, svars, evars, dvars, f_store, f_ret>>

\* optim.fct_obj, lines 119-121: a matrix without rows is not sent to the pool
FctObjEmpty ==
    /\ f_pc = "idle"
    /\ FTotal = 0
    /\ f_pc' = "obj_returned"
    /\ f_store' = Append(f_store, <<>>)
    /\ f_ret' = <<[ndim |-> 2, obj |-> <<>>]>>
    /\ UNCHANGED <<f_cfg, f_args, f_status, f_done, f_out, f_calls>>
    /\ UNCHANGED <<qvars, mvars, svars, evars, dvars>>

\* optim.fct_obj, lines 137-138: x_tmp is neither a vector nor a matrix
FctObjInvalid ==
    /\ f_pc = "idle"
    /\ f_pc' = "obj_raised"
    /\ UNCHANGED <<f_cfg, f_args, f_status, f_done, f_out, f_calls, f_store, f_ret>>
    /\ UNCHANGED <<qvars, mvars, svars, evars, dvars>>

\* optim.fct_obj after the pool has returned: (obj_tmp, design_tmp) is the pair
\* of get_fct (lines 112-117) or the unzipped list of get_loop (129-135); the
\* rejected designs are filtered out, the frame goes to add_design (141) and
\* obj_tmp is returned (143)
FctObj ==
    /\ \/ f_pc = "fct_returned"
       \/ f_pc = "returned" /\ f_out # <<>>
    /\ f_pc' = "obj_returned"
    /\ f_store' = Append(f_store, FilterNone([i \in 1..Len(f_out) |-> DesignOf(f_out[i])]))
    /\ f_ret' = <<[ndim |-> IF f_pc = "fct_returned" THEN 1 ELSE 2,
                   obj |-> [i \in 1..Len(f_out) |-> f_out[i].val]]>>
    /\ UNCHANGED <<f_cfg, f_args, f_status, f_done, f_out, f_calls>>
    /\ UNCHANGED <<qvars, mvars, svars, evars, dvars>>

NextFct ==
    \/ FGetLoop
    \/ FGetFct
    \/ FctObjEmpty
    \/ FctObjInvalid
    \/ FctObj
    \/ \E i \in 1..MaxItems : i \in DOMAIN f_status /\ FWorkerStart(i)
    \/ \E i \in 1..MaxItems : i \in DOMAIN f_status /\ FWorkerDone(i)
    \/ FListNext

SpecFct == InitFct /\ [][NextFct]_vars

\* ---- properties of FctPool ----

\* C3: the list returned by FctPool.get_loop holds, at position i, the compute
\* function applied to the i-th tuple of the zipped argument lists, for every
\* worker count and every completion order (so the zero-worker and the N-worker
\* results of a deterministic compute function are the same list); while the
\* list is being built it is a prefix of that list.
C3_MapOrdered ==
    /\ \A i \in 1..Len(f_out) :
          f_out[i] = FctCompute(f_args[1][i], f_args[2][i])
    /\ f_pc = "returned" =>
          Len(f_out) = Min2(Len(f_args[1]), Len(f_args[2]))

\* a run with workers that returned three results although the second task
\* finished before the first
C3_Witness ==
    /\ f_pc = "returned"
    /\ f_cfg.n_parallel >= 2
    /\ Len(f_out) >= 3
    /\ f_done[1] = 2
    /\ f_out[1] # f_out[2]

----------------------------------------------------------------------------
\* _FunctionEval: the convergence monitor

MaxThreads == 2
MThreads == 1..MaxThreads

ObjVals == 1..3
CondVals == {-1, 0, 1}

\* np.PINF, the initial best objective (a best value v is kept as <<v>>)
PInf == <<>>

\* _FunctionEval.__init__, lines 50-61
NewMonitor ==
    [n_iter |-> 0, n_eval_obj |-> 0, n_eval_cond |-> 0, n_cond_valid |-> 0,
     n_cond_fail |-> 0, obj_list |-> <<>>, obj_best |-> PInf]

\* a _set_cond_single that counts a value of 0 as violated
SetCondSingleNonNeg(m, cond) ==
    [m EXCEPT !.n_eval_cond = @ + 1,
              !.n_cond_fail = IF cond >= 0 THEN @ + 1 ELSE @,
              !.n_cond_valid = IF cond >= 0 THEN @ ELSE @ + 1]

\* _set_cond_single
SetCondSingle(m, cond) ==
    [m EXCEPT !.n_eval_cond = @ + 1,
              !.n_cond_fail = IF cond > 0 THEN @ + 1 ELSE @,
              !.n_cond_valid = IF cond > 0 THEN @ ELSE @ + 1]

\* _set_obj_single
SetObjSingle(m, obj) ==
    [m EXCEPT !.n_eval_obj = @ + 1,
              !.obj_best = IF @ = PInf \/ obj < @[1] THEN <<obj>> ELSE @,
              !.obj_list = Append(@, obj)]

\* get_log: the counters are displayed, then n_iter is incremented
GetLog(m) == [m EXCEPT !.n_iter = @ + 1]

RECURSIVE SeqMin(_)
\* np.min of a non-empty array
SeqMin(s) ==
    IF Len(s) = 1 THEN s[1]
    ELSE Min2(s[1], SeqMin(Tail(s)))

\* the slice a[:-k] (k >= 0): empty for k = 0 and for k >= len(a)
SliceBefore(a, k) ==
    IF k = 0 \/ k >= Len(a) THEN <<>> ELSE SubSeq(a, 1, Len(a) - k)

\* the slice a[-k:] (k >= 0): the whole array for k = 0 and for k >= len(a)
SliceLast(a, k) ==
    IF k = 0 \/ k >= Len(a) THEN a ELSE SubSeq(a, Len(a) - k + 1, Len(a))

\* (obj_cmp-obj_min)/obj_min < tol in float64, tol = <<num, den>> with den > 0:
\* a zero obj_min gives -inf for a negative numerator (below any tol) and inf or
\* nan otherwise (below none)
TolBelow(obj_cmp, obj_min, tol) ==
    IF obj_min > 0 THEN (obj_cmp - obj_min) * tol[2] < tol[1] * obj_min
    ELSE IF obj_min < 0 THEN (obj_cmp - obj_min) * tol[2] > tol[1] * obj_min
    ELSE obj_cmp < 0

\* get_convergence, lines 182-208: the sliding-window criterion
GetConvergenceWindow(m, cfg) ==
    IF m.n_eval_obj < Max2(cfg.n_eval_init[1], cfg.n_eval_conv[1]) THEN "False"
    ELSE IF SliceBefore(m.obj_list, cfg.n_eval_conv[1]) = <<>> THEN "ValueError"
    ELSE IF SliceLast(m.obj_list, cfg.n_eval_conv[1]) = <<>> THEN "ValueError"
    ELSE IF TolBelow(SeqMin(SliceBefore(m.obj_list, cfg.n_eval_conv[1])),
                     SeqMin(SliceLast(m.obj_list, cfg.n_eval_conv[1])),
                     cfg.tol_conv_cmp)
         THEN "True"
         ELSE "False"

\* a check that forgets the "n_eval_init is None" test: np.maximum(None, n) raises
GetConvergenceDefinedNoInit(m, cfg) ==
    IF cfg.n_eval_conv = None THEN "False"
    ELSE IF cfg.tol_conv_cmp = None THEN "False"
    ELSE IF cfg.n_eval_init = None THEN "TypeError"
    ELSE GetConvergenceWindow(m, cfg)

\* get_convergence, lines 174-180: no convergence when a criterion is not defined
GetConvergenceDefined(m, cfg) ==
    IF cfg.n_eval_conv = None THEN "False"
    ELSE IF cfg.n_eval_init = None THEN "False"
    ELSE IF cfg.tol_conv_cmp = None THEN "False"
    ELSE GetConvergenceWindow(m, cfg)

\* a cap that fires only once the maximum has been exceeded
GetConvergenceStrictCap(m, cfg) ==
    IF cfg.n_eval_max = None THEN "TypeError"
    ELSE IF m.n_eval_obj > cfg.n_eval_max[1] THEN "True"
    ELSE GetConvergenceDefined(m, cfg)

\* get_convergence: what the call returns ("True", "False") or raises
GetConvergence(m, cfg) ==
    IF cfg.n_eval_max = None THEN "TypeError"
    ELSE IF m.n_eval_obj >= cfg.n_eval_max[1] THEN "True"
    ELSE GetConvergenceDefined(m, cfg)

\* the convergence dictionaries of the model: each parameter unset or set
MConfigs ==
    [n_eval_max : {None, <<2>>, <<3>>},
     n_eval_conv : {None, <<1>>, <<2>>},
     n_eval_init : {None, <<1>>, <<3>>},
     tol_conv_cmp : {None, <<1, 2>>}]

\* the calls of a single caller: set_obj and set_cond with a scalar or with
\* paired sequences, get_log, get_convergence
MCalls ==
    {[op |-> "set_obj", vals |-> <<v>>] : v \in ObjVals}
    \cup {[op |-> "set_obj", vals |-> b] : b \in {<<>>, <<2, 1>>, <<1, 3>>, <<3, 3>>}}
    \cup {[op |-> "set_cond", vals |-> b] : b \in {<<0>>, <<1, -1>>}}
    \cup {[op |-> "get_log", vals |-> <<0>>], [op |-> "get_convergence", vals |-> <<0>>]}

\* the configurations and calls of the concurrent callers
MThreadConfigs ==
    {[n_eval_max |-> <<3>>, n_eval_conv |-> <<1>>, n_eval_init |-> <<2>>,
      tol_conv_cmp |-> <<1, 2>>],
     [n_eval_max |-> <<2>>, n_eval_conv |-> None, n_eval_init |-> None,
      tol_conv_cmp |-> None]}

MThreadCalls ==
    {[op |-> "set_obj", vals |-> b] : b \in {<<1>>, <<2>>, <<2, 1>>}}
    \cup {[op |-> "set_cond", vals |-> b] : b \in {<<0>>, <<1>>, <<1, 0>>}}
    \cup {[op |-> "get_log", vals |-> <<0>>], [op |-> "get_convergence", vals |-> <<0>>]}

MIdle(threads, max_calls) ==
    /\ mon = NewMonitor
    /\ m_lock = 1
    /\ m_pc = [t \in threads |-> "idle"]
    /\ m_call = [t \in threads |-> [op |-> "none", vals |-> <<>>]]
    /\ m_snap = [t \in threads |-> NewMonitor]
    /\ m_conv = <<>>
    /\ m_tot = [obj |-> 0, cond |-> 0, log |-> 0, calls |-> 0, max |-> max_calls]

\* several threads share one monitor
InitMonitor ==
    /\ EOff
    /\ DOff
    /\ m_cfg \in MThreadConfigs
    /\ MIdle(MThreads, MaxCalls)
    /\ QOff
    /\ FOff
    /\ SOff

\* one caller, every configuration
InitConv ==
    /\ EOff
    /\ DOff
    /\ m_cfg \in MConfigs
    /\ MIdle({1}, MaxSeqCalls)
    /\ QOff
    /\ FOff
    /\ SOff

\* a thread calls a method of the monitor
MCall(t, c) ==
    /\ m_pc[t] = "idle"
    /\ m_tot.calls < m_tot.max
    /\ c.op = "set_obj" => m_tot.obj + Len(c.vals) <= MaxRecords
    /\ c.op = "set_cond" => m_tot.cond + Len(c.vals) <= MaxRecords
    /\ m_call' = [m_call EXCEPT ![t] = c]
    /\ m_pc' = [m_pc EXCEPT ![t] = "acquire"]
    /\ m_tot' = [m_tot EXCEPT !.calls = @ + 1,
                              !.obj = IF c.op = "set_obj" THEN @ + Len(c.vals) ELSE @,
                              !.cond = IF c.op = "set_cond" THEN @ + Len(c.vals) ELSE @,
                              !.log = IF c.op = "get_log" THEN @ + 1 ELSE @]
    /\ UNCHANGED <<m_cfg, mon, m_lock, m_snap, m_conv>>
    /\ UNCHANGED <<qvars, fvars, svars, evars, dvars>>

\* an acquire that does not wait for the semaphore
MAcquireNoWait(t) ==
    /\ m_pc[t] = "acquire"
    /\ m_lock' = m_lock - 1
    /\ m_pc' = [m_pc EXCEPT ![t] = IF m_call[t].vals = <<>> THEN "release" ELSE "load"]
    /\ UNCHANGED <<m_cfg, mon, m_call, m_snap, m_conv, m_tot>>
    /\ UNCHANGED <<qvars, fvars, svars, evars, dvars>>

\* _thread_lock: "with self.lock" acquires the semaphore
MAcquire(t) ==
    /\ m_pc[t] = "acquire"
    /\ m_lock > 0
    /\ m_lock' = m_lock - 1
    /\ m_pc' = [m_pc EXCEPT ![t] = IF m_call[t].vals = <<>> THEN "release" ELSE "load"]
    /\ UNCHANGED <<m_cfg, mon, m_call, m_snap, m_conv, m_tot>>
    /\ UNCHANGED <<qvars, fvars, svars, evars, dvars>>

\* the method body reads the fields of the object
MLoad(t) ==
    /\ m_pc[t] = "load"
    /\ m_snap' = [m_snap EXCEPT ![t] = mon]
    /\ m_pc' = [m_pc EXCEPT ![t] = "store"]
    /\ UNCHANGED <<m_cfg, mon, m_lock, m_call, m_conv, m_tot>>
    /\ UNCHANGED <<qvars, fvars, svars, evars, dvars>>

\* the method body writes the fields it updates from what it has read: one
\* recording of set_obj / set_cond (their loops go back to read for the next
\* pair), the increment of get_log, or the decision of get_convergence
MStore(t) ==
    /\ m_pc[t] = "store"
    /\ LET c == m_call[t]
           v == Head(c.vals)
           o == SetObjSingle(m_snap[t], v)
           k == SetCondSingle(m_snap[t], v)
       IN  /\ mon' = CASE c.op = "set_obj" ->
                            [mon EXCEPT !.n_eval_obj = o.n_eval_obj,
                                        !.obj_best = o.obj_best,
                                        !.obj_list = o.obj_list]
                       [] c.op = "set_cond" ->
                            [mon EXCEPT !.n_eval_cond = k.n_eval_cond,
                                        !.n_cond_fail = k.n_cond_fail,
                                        !.n_cond_valid = k.n_cond_valid]
                       [] c.op = "get_log" ->
                            [mon EXCEPT !.n_iter = GetLog(m_snap[t]).n_iter]
                       [] OTHER -> mon
           /\ m_conv' = IF c.op = "get_convergence"
                        THEN <<[n |-> m_snap[t].n_eval_obj,
                                hist |-> m_snap[t].obj_list,
                                ret |-> GetConvergence(m_snap[t], m_cfg)]>>
                        ELSE m_conv
           /\ m_call' = [m_call EXCEPT ![t].vals = Tail(c.vals)]
           /\ m_pc' = [m_pc EXCEPT ![t] = IF Tail(c.vals) = <<>> THEN "release" ELSE "load"]
    /\ m_snap' = [m_snap EXCEPT ![t] = NewMonitor]
    /\ UNCHANGED <<m_cfg, m_lock, m_tot>>
    /\ UNCHANGED <<qvars, fvars, svars, evars, dvars>>

\* _thread_lock: leaving "with self.lock" releases the semaphore
MRelease(t) ==
    /\ m_pc[t] = "release"
    /\ m_lock' = m_lock + 1
    /\ m_pc' = [m_pc EXCEPT ![t] = "idle"]
    /\ m_call' = [m_call EXCEPT ![t] = [op |-> "none", vals |-> <<>>]]
    /\ UNCHANGED <<m_cfg, mon, m_snap, m_conv, m_tot>>
    /\ UNCHANGED <<qvars, fvars, svars, evars, dvars>>

NextMonitor ==
    \/ \E t \in DOMAIN m_pc, c \in MThreadCalls : MCall(t, c)
    \/ \E t \in DOMAIN m_pc : MAcquire(t)
    \/ \E t \in DOMAIN m_pc : MLoad(t)
    \/ \E t \in DOMAIN m_pc : MStore(t)
    \/ \E t \in DOMAIN m_pc : MRelease(t)

SpecMonitor == InitMonitor /\ [][NextMonitor]_vars

NextConv ==
    \/ \E c \in MCalls : MCall(1, c)
    \/ MAcquire(1)
    \/ MLoad(1)
    \/ MStore(1)
    \/ MRelease(1)

SpecConv == InitConv /\ [][NextConv]_vars

\* ---- properties of the monitor ----

MAllIdle == \A t \in DOMAIN m_pc : m_pc[t] = "idle"
MInside == {t \in DOMAIN m_pc : m_pc[t] \in {"load", "store", "release"}}

\* C4: the calls of concurrent threads execute one at a time under the binary
\* lock: at most one thread is inside a method body, no update is lost (when all
\* calls have finished the counters and the history length equal the totals over
\* the calls issued) and every get_convergence decision is taken on a snapshot
\* whose evaluation count equals its history length.
C4_AtomicCalls ==
    /\ m_lock \in {0, 1}
    /\ Cardinality(MInside) + m_lock = 1
    /\ MAllIdle =>
          /\ mon.n_eval_obj = m_tot.obj
          /\ Len(mon.obj_list) = m_tot.obj
          /\ mon.n_eval_cond = m_tot.cond
          /\ mon.n_cond_valid + mon.n_cond_fail = m_tot.cond
          /\ mon.n_iter = m_tot.log
    /\ m_conv # <<>> => m_conv[1].n = Len(m_conv[1].hist)
    /\ \A t \in DOMAIN m_pc :
          m_pc[t] = "store" => m_snap[t] = mon

\* one thread waits for the lock while another one is inside set_obj, after a
\* convergence decision has been taken on a non-empty history
C4_Witness ==
    /\ \E t, u \in DOMAIN m_pc :
          /\ m_pc[t] = "acquire"
          /\ m_pc[u] = "store"
          /\ m_call[u].op = "set_obj"
          /\ Len(m_call[u].vals) = 1
          /\ mon.n_eval_obj = 1
    /\ m_conv # <<>>
    /\ m_tot.calls = 3

\* C8: whenever the number of recorded objective evaluations is at least the
\* configured maximum, get_convergence returns True, whatever the recorded
\* values and whether the three other parameters are set.
C8_CapForcesConvergence ==
    m_conv # <<>> /\ m_cfg.n_eval_max # None =>
        (m_conv[1].n >= m_cfg.n_eval_max[1] => m_conv[1].ret = "True")

\* a decision taken exactly at the maximum, reached by a batch and a scalar
\* recording, with the window criterion configured and not satisfied
C8_Witness ==
    /\ m_conv # <<>>
    /\ m_cfg = [n_eval_max |-> <<3>>, n_eval_conv |-> <<1>>, n_eval_init |-> <<1>>,
                tol_conv_cmp |-> <<1, 2>>]
    /\ m_conv[1].hist = <<3, 3, 1>>
    /\ m_conv[1].ret = "True"

SetMin(S) == CHOOSE x \in S : \A y \in S : x <= y

\* (min of the history before the last w values - min of the last w values)
\* / (min of the last w values) < tol, for positive objective values
C9_RelativeImprovementBelow(hist, w, tol) ==
    LET before == {hist[i] : i \in 1..(Len(hist) - w)}
        last == {hist[i] : i \in (Len(hist) - w + 1)..Len(hist)}
    IN  /\ before # {}
        /\ last # {}
        /\ (SetMin(before) - SetMin(last)) * tol[2] < tol[1] * SetMin(last)

\* C9: with window, warm-up and tolerance configured and the count below the
\* maximum, get_convergence returns False below max(warm-up, window), and from
\* there on returns True exactly when the relative improvement is below the
\* tolerance and False otherwise.
C9_WindowCriterion ==
    (/\ m_conv # <<>>
     /\ m_cfg.n_eval_max # None
     /\ m_cfg.n_eval_conv # None
     /\ m_cfg.n_eval_init # None
     /\ m_cfg.tol_conv_cmp # None
     /\ m_conv[1].n < m_cfg.n_eval_max[1])
    => IF m_conv[1].n < Max2(m_cfg.n_eval_init[1], m_cfg.n_eval_conv[1])
       THEN m_conv[1].ret = "False"
       ELSE /\ m_conv[1].ret \in {"True", "False"}
            /\ m_conv[1].ret = "True" <=>
                  C9_RelativeImprovementBelow(m_conv[1].hist, m_cfg.n_eval_conv[1],
                                              m_cfg.tol_conv_cmp)

\* C10: below the maximum, get_convergence returns False whenever window,
\* warm-up or tolerance is unset, whatever the history.
C10_UnsetNeverConverges ==
    (/\ m_conv # <<>>
     /\ m_cfg.n_eval_max # None
     /\ m_conv[1].n < m_cfg.n_eval_max[1]
     /\ \/ m_cfg.n_eval_conv = None
        \/ m_cfg.n_eval_init = None
        \/ m_cfg.tol_conv_cmp = None)
    => m_conv[1].ret = "False"

\* a decision below the maximum on a flat history that the window criterion
\* would accept, with only the warm-up minimum unset
C10_Witness ==
    /\ m_conv # <<>>
    /\ m_cfg = [n_eval_max |-> <<3>>, n_eval_conv |-> <<1>>, n_eval_init |-> None,
                tol_conv_cmp |-> <<1, 2>>]
    /\ m_conv[1].hist = <<3, 3>>
    /\ m_conv[1].ret = "False"

----------------------------------------------------------------------------
\* get_solve and the backend adapters. Each monitor method is one step (the
\* lock makes it atomic); the backends (scipy, pygad, optuna, nevergrad) are
\* reduced to the calls they make to the functions the adapters hand them.

\* minimum size of the initial pool asserted by the population-based adapters
PopMin == 5

SolveObjVals == {1, 2}
SolveCondVals == {0, 1}

AdapterMethods == {"minimize", "diffevo", "pygad", "optuna", "nevergrad"}

\* data_solver["method"], data_solver["parameters"], n_parallel and len(x_init)
SolvePars ==
    {[method |-> "minimize", n_parallel |-> 1, n_init |-> nr[1], recompute |-> nr[2],
      cond |-> FALSE] : nr \in {<<0, FALSE>>, <<1, FALSE>>, <<PopMin, TRUE>>}}
    \cup {[method |-> "diffevo", n_parallel |-> 1, n_init |-> n, recompute |-> FALSE,
           cond |-> c] : n \in {1, PopMin}, c \in BOOLEAN}
    \cup {[method |-> "pygad", n_parallel |-> k, n_init |-> PopMin, recompute |-> FALSE,
           cond |-> c] : k \in 1..MaxWorkers, c \in BOOLEAN}
    \cup {[method |-> "optuna", n_parallel |-> k, n_init |-> 1, recompute |-> FALSE,
           cond |-> c] : k \in 1..MaxWorkers, c \in BOOLEAN}
    \cup {[method |-> "nevergrad", n_parallel |-> k, n_init |-> 1, recompute |-> r,
           cond |-> c] : k \in 1..MaxWorkers, r \in BOOLEAN, c \in BOOLEAN}
    \cup {[method |-> "other", n_parallel |-> 1, n_init |-> 1, recompute |-> FALSE,
           cond |-> FALSE]}

\* data_solver["convergence"]: the maximum is always set, the window criterion
\* is unset or set; the population-based backends get maxima above one population
SolveConfigs(method) ==
    IF method \in {"diffevo", "pygad"}
    THEN {[n_eval_max |-> <<3>>, n_eval_conv |-> None, n_eval_init |-> None,
           tol_conv_cmp |-> None],
          [n_eval_max |-> <<12>>, n_eval_conv |-> None, n_eval_init |-> None,
           tol_conv_cmp |-> None],
          [n_eval_max |-> <<12>>, n_eval_conv |-> <<10>>, n_eval_init |-> <<1>>,
           tol_conv_cmp |-> <<1, 2>>]}
    ELSE {[n_eval_max |-> <<3>>, n_eval_conv |-> None, n_eval_init |-> None,
           tol_conv_cmp |-> None],
          [n_eval_max |-> <<3>>, n_eval_conv |-> <<1>>, n_eval_init |-> <<1>>,
           tol_conv_cmp |-> <<1, 2>>],
          [n_eval_max |-> <<4>>, n_eval_conv |-> <<1>>, n_eval_init |-> <<2>>,
           tol_conv_cmp |-> <<1, 2>>]}

\* a worker thread of the backend that runs no job
WIdle == [pc |-> "idle", obj |-> 0, exc |-> "None"]

AllIdle == \A w \in DOMAIN a_w : a_w[w].pc = "idle"

\* no worker thread is inside a job
Quiescent == \A w \in DOMAIN a_w : a_w[w].pc \in {"idle", "finished", "failed"}

\* obj_eval.get_convergence() on the monitor m
Status(m) == GetConvergence(m, m_cfg)

\* k vectors with the same compute result v
Batch(k, v) == [i \in 1..k |-> v]

RECURSIVE SetObj(_, _)
\* set_obj with paired sequences: one _set_obj_single per pair
SetObj(m, vals) ==
    IF vals = <<>> THEN m ELSE SetObj(SetObjSingle(m, Head(vals)), Tail(vals))

RECURSIVE SetCond(_, _)
\* set_cond with paired sequences: one _set_cond_single per pair
SetCond(m, vals) ==
    IF vals = <<>> THEN m ELSE SetCond(SetCondSingle(m, Head(vals)), Tail(vals))

\* the monitor variables a driver step leaves alone
mrest == <<m_cfg, m_lock, m_pc, m_call, m_snap, m_conv, m_tot>>

\* get_solve has been called: obj_eval is constructed (line 256)
InitSolve ==
    /\ EOff
    /\ DOff
    /\ s_par \in SolvePars
    /\ m_cfg \in SolveConfigs(s_par.method)
    /\ mon = NewMonitor
    /\ m_lock = 1 /\ m_pc = <<>> /\ m_call = <<>> /\ m_snap = <<>> /\ m_conv = <<>>
    /\ m_tot = None
    /\ s_pc = "start"
    /\ a_pc = "off"
    /\ a_w = [w \in 1..s_par.n_parallel |-> WIdle]
    /\ a_n = 0 /\ a_stop = FALSE /\ a_exc = "None" /\ a_pop = 0
    /\ s_cnt = [obj |-> 0, cond |-> 0]
    /\ s_end = "none"
    /\ s_log = [init |-> FALSE, final |-> FALSE]
    /\ QOff
    /\ FOff

\* get_solve, lines 259-278: the initial log, then the dispatch on the method
SolveStart ==
    /\ s_pc = "start"
    /\ mon' = GetLog(mon)
    /\ s_log' = [s_log EXCEPT !.init = TRUE]
    /\ IF s_par.method \in AdapterMethods
       THEN s_pc' = "adapter" /\ a_pc' = "enter" /\ a_exc' = a_exc /\ s_end' = s_end
       ELSE s_pc' = "raised" /\ a_pc' = a_pc /\ a_exc' = "ValueError" /\ s_end' = "error"
    /\ UNCHANGED <<s_par, a_w, a_n, a_stop, a_pop, s_cnt>>
    /\ UNCHANGED <<qvars, fvars, mrest, evars, dvars>>

\* get_solve, lines 280-283: the adapter has returned, the final log
SolveFinish ==
    /\ s_pc = "adapter"
    /\ a_pc = "returned"
    /\ mon' = GetLog(mon)
    /\ s_log' = [s_log EXCEPT !.final = TRUE]
    /\ s_pc' = "returned"
    /\ UNCHANGED <<s_par, a_pc, a_w, a_n, a_stop, a_exc, a_pop, s_cnt, s_end>>
    /\ UNCHANGED <<qvars, fvars, mrest, evars, dvars>>

\* a get_solve that emits the final log in a "finally" clause
SolveRaiseLogged ==
    /\ s_pc = "adapter"
    /\ a_pc = "raised"
    /\ s_pc' = "raised"
    /\ mon' = GetLog(mon)
    /\ s_log' = [s_log EXCEPT !.final = TRUE]
    /\ UNCHANGED <<s_par, a_pc, a_w, a_n, a_stop, a_exc, a_pop, s_cnt, s_end>>
    /\ UNCHANGED <<qvars, fvars, mrest, evars, dvars>>

\* get_solve has no handler: an exception of the adapter leaves it
SolveRaise ==
    /\ s_pc = "adapter"
    /\ a_pc = "raised"
    /\ s_pc' = "raised"
    /\ UNCHANGED <<s_par, a_pc, a_w, a_n, a_stop, a_exc, a_pop, s_cnt, s_end, s_log>>
    /\ UNCHANGED <<qvars, fvars, mvars, evars, dvars>>

\* ---- scipy_minimize ----

\* get_solve, lines 81-85: the assertion on the pool, then the recomputation
\* of the initial designs (one batch through _get_fitness, no convergence check)
MinStart(v) ==
    /\ s_pc = "adapter" /\ s_par.method = "minimize" /\ a_pc = "enter"
    /\ IF s_par.n_init < 1
       THEN /\ a_pc' = "raised" /\ a_exc' = "AssertionError" /\ s_end' = "error"
            /\ UNCHANGED <<mon, s_cnt>>
       ELSE /\ a_pc' = "min_run" /\ a_exc' = a_exc /\ s_end' = s_end
            /\ IF s_par.recompute
               THEN /\ s_cnt' = [s_cnt EXCEPT !.obj = @ + s_par.n_init]
                    /\ mon' = GetLog(SetObj(mon, Batch(s_par.n_init, v)))
               ELSE UNCHANGED <<mon, s_cnt>>
    /\ UNCHANGED <<s_pc, s_par, a_w, a_n, a_stop, a_pop, s_log>>
    /\ UNCHANGED <<qvars, fvars, mrest, evars, dvars>>

\* fct_fitness, lines 104-108: _get_fitness (eval_obj, set_obj, get_log) then
\* _get_convergence, which raises when the monitor reports convergence
MinFitness(v) ==
    /\ s_pc = "adapter" /\ s_par.method = "minimize" /\ a_pc = "min_run"
    /\ LET m1 == GetLog(SetObjSingle(mon, v))
           st == Status(m1)
       IN  /\ mon' = m1
           /\ a_exc' = CASE st = "True" -> "SolverConvergenceError"
                         [] st = "False" -> "None"
                         [] OTHER -> st
           /\ a_pc' = IF st = "False" THEN "min_run" ELSE "min_except"
    /\ s_cnt' = [s_cnt EXCEPT !.obj = @ + 1]
    /\ a_n' = 1
    /\ UNCHANGED <<s_pc, s_par, a_w, a_stop, a_pop, s_end, s_log>>
    /\ UNCHANGED <<qvars, fvars, mrest, evars, dvars>>

\* _get_fitness, line 45: eval_obj raises (the compute call fails); nothing is
\* recorded and the exception reaches the handler of get_solve
MinComputeFail ==
    /\ s_pc = "adapter" /\ s_par.method = "minimize" /\ a_pc = "min_run"
    /\ a_pc' = "min_except"
    /\ a_exc' = "ComputeError"
    /\ UNCHANGED <<s_pc, s_par, a_w, a_n, a_stop, a_pop, s_cnt, s_end, s_log>>
    /\ UNCHANGED <<qvars, fvars, mvars, evars, dvars>>

\* opt.minimize ends by its own tolerances or iteration limit
MinReturn ==
    /\ s_pc = "adapter" /\ s_par.method = "minimize" /\ a_pc = "min_run"
    /\ a_n = 1
    /\ a_pc' = "returned"
    /\ s_end' = "budget"
    /\ UNCHANGED <<s_pc, s_par, a_w, a_n, a_stop, a_exc, a_pop, s_cnt, s_log>>
    /\ UNCHANGED <<qvars, fvars, mvars, evars, dvars>>

\* a handler that lets the convergence exception through
MinExceptNoCatch ==
    /\ s_pc = "adapter" /\ s_par.method = "minimize" /\ a_pc = "min_except"
    /\ a_pc' = "raised" /\ a_exc' = a_exc
    /\ s_end' = IF a_exc = "SolverConvergenceError" THEN "converged" ELSE "error"
    /\ UNCHANGED <<s_pc, s_par, a_w, a_n, a_stop, a_pop, s_cnt, s_log>>
    /\ UNCHANGED <<qvars, fvars, mvars, evars, dvars>>

\* get_solve, lines 111-121: "except SolverConvergenceError: pass"
MinExcept ==
    /\ s_pc = "adapter" /\ s_par.method = "minimize" /\ a_pc = "min_except"
    /\ IF a_exc = "SolverConvergenceError"
       THEN a_pc' = "returned" /\ a_exc' = "None" /\ s_end' = "converged"
       ELSE a_pc' = "raised" /\ a_exc' = a_exc /\ s_end' = "error"
    /\ UNCHANGED <<s_pc, s_par, a_w, a_n, a_stop, a_pop, s_cnt, s_log>>
    /\ UNCHANGED <<qvars, fvars, mvars, evars, dvars>>

\* ---- scipy_diffevo ----

\* get_solve, line 85: the assertion on the initial population
DeStart ==
    /\ s_pc = "adapter" /\ s_par.method = "diffevo" /\ a_pc = "enter"
    /\ IF s_par.n_init < PopMin
       THEN a_pc' = "raised" /\ a_exc' = "AssertionError" /\ s_end' = "error"
       ELSE a_pc' = "de_init" /\ a_exc' = a_exc /\ s_end' = s_end
    /\ UNCHANGED <<s_pc, s_par, a_w, a_n, a_stop, a_pop, s_cnt, s_log>>
    /\ UNCHANGED <<qvars, fvars, mvars, evars, dvars>>

\* _get_constraints: the population goes through eval_cond and set_cond
DeConstraints(c) ==
    /\ s_pc = "adapter" /\ s_par.method = "diffevo" /\ a_pc \in {"de_init", "de_run"}
    /\ s_par.cond /\ a_n = 0 /\ ~a_stop
    /\ s_cnt' = [s_cnt EXCEPT !.cond = @ + s_par.n_init]
    /\ mon' = SetCond(mon, Batch(s_par.n_init, c))
    /\ a_n' = 1
    /\ UNCHANGED <<s_pc, s_par, a_pc, a_w, a_stop, a_exc, a_pop, s_end, s_log>>
    /\ UNCHANGED <<qvars, fvars, mrest, evars, dvars>>

\* _get_fitness (vectorized): the population goes through eval_obj and set_obj
DeFitness(v) ==
    /\ s_pc = "adapter" /\ s_par.method = "diffevo" /\ a_pc \in {"de_init", "de_run"}
    /\ ~a_stop
    /\ s_par.cond => a_n = 1
    /\ s_cnt' = [s_cnt EXCEPT !.obj = @ + s_par.n_init]
    /\ mon' = SetObj(mon, Batch(s_par.n_init, v))
    /\ a_n' = 0
    /\ a_pc' = IF a_pc = "de_init" THEN "de_run" ELSE "de_callback"
    /\ UNCHANGED <<s_pc, s_par, a_w, a_stop, a_exc, a_pop, s_end, s_log>>
    /\ UNCHANGED <<qvars, fvars, mrest, evars, dvars>>

\* _get_fitness, line 48: eval_obj raises (the compute call fails); the
\* adapter has no handler
DeComputeFail ==
    /\ s_pc = "adapter" /\ s_par.method = "diffevo" /\ a_pc \in {"de_init", "de_run"}
    /\ ~a_stop
    /\ s_par.cond => a_n = 1
    /\ a_pc' = "raised"
    /\ a_exc' = "ComputeError"
    /\ s_end' = "error"
    /\ UNCHANGED <<s_pc, s_par, a_w, a_n, a_stop, a_pop, s_cnt, s_log>>
    /\ UNCHANGED <<qvars, fvars, mvars, evars, dvars>>

\* _get_callback, after each generation: get_log, get_convergence, True to stop
DeCallback ==
    /\ s_pc = "adapter" /\ s_par.method = "diffevo" /\ a_pc = "de_callback"
    /\ LET m1 == GetLog(mon)
           st == Status(m1)
       IN  /\ mon' = m1
           /\ a_stop' = (st = "True")
           /\ IF st \in {"True", "False"}
              THEN a_pc' = "de_run" /\ a_exc' = a_exc /\ s_end' = s_end
              ELSE a_pc' = "raised" /\ a_exc' = st /\ s_end' = "error"
    /\ UNCHANGED <<s_pc, s_par, a_w, a_n, a_pop, s_cnt, s_log>>
    /\ UNCHANGED <<qvars, fvars, mrest, evars, dvars>>

\* differential_evolution returns: the callback has returned True, or the
\* backend's own tolerances or iteration limit are met
DeReturn ==
    /\ s_pc = "adapter" /\ s_par.method = "diffevo" /\ a_pc = "de_run"
    /\ a_n = 0
    /\ a_pc' = "returned"
    /\ s_end' = IF a_stop THEN "converged" ELSE "budget"
    /\ UNCHANGED <<s_pc, s_par, a_w, a_n, a_stop, a_exc, a_pop, s_cnt, s_log>>
    /\ UNCHANGED <<qvars, fvars, mvars, evars, dvars>>

\* ---- pygad ----

MaxRetry == 1

\* get_solve, line 186: the assertion on the initial population; gad.run()
\* starts with the fitness of the initial population
PgStart(v) ==
    /\ s_pc = "adapter" /\ s_par.method = "pygad" /\ a_pc = "enter"
    /\ IF s_par.n_init < PopMin
       THEN /\ a_pc' = "raised" /\ a_exc' = "AssertionError" /\ s_end' = "error"
            /\ UNCHANGED <<a_n, a_pop>>
       ELSE /\ a_pc' = "pg_init" /\ a_exc' = a_exc /\ s_end' = s_end
            /\ a_n' = s_par.n_init /\ a_pop' = v
    /\ UNCHANGED <<s_pc, s_par, a_w, a_stop, s_cnt, s_log>>
    /\ UNCHANGED <<qvars, fvars, mvars, evars, dvars>>

\* _get_fitness, line 32: a pool thread passes one solution to eval_obj
PgFitness(w) ==
    /\ s_pc = "adapter" /\ s_par.method = "pygad" /\ a_pc \in {"pg_init", "pg_fitness"}
    /\ a_n > 0
    /\ a_w[w].pc = "idle"
    /\ a_w' = [a_w EXCEPT ![w] = [pc |-> "evaluated", obj |-> a_pop, exc |-> "None"]]
    /\ a_n' = a_n - 1
    /\ s_cnt' = [s_cnt EXCEPT !.obj = @ + 1]
    /\ UNCHANGED <<s_pc, s_par, a_pc, a_stop, a_exc, a_pop, s_end, s_log>>
    /\ UNCHANGED <<qvars, fvars, mvars, evars, dvars>>

\* _get_fitness, line 33: the thread records its evaluation; the fitness of
\* the population is complete when no solution is left and no thread is busy
PgRecord(w) ==
    /\ s_pc = "adapter" /\ s_par.method = "pygad"
    /\ a_w[w].pc = "evaluated"
    /\ mon' = SetObjSingle(mon, a_w[w].obj)
    /\ a_w' = [a_w EXCEPT ![w] = WIdle]
    /\ a_pc' = IF a_n = 0 /\ \A u \in DOMAIN a_w \ {w} : a_w[u].pc = "idle"
               THEN (IF a_pc = "pg_init" THEN "pg_run" ELSE "pg_callback")
               ELSE a_pc
    /\ UNCHANGED <<s_pc, s_par, a_n, a_stop, a_exc, a_pop, s_cnt, s_end, s_log>>
    /\ UNCHANGED <<qvars, fvars, mrest, evars, dvars>>

\* a generation: crossover and mutation; with constraints _get_retry passes the
\* offspring to eval_cond and set_cond, and again for each of its r retries
\* (r rounds fail to give enough valid offspring, the last one has validity c)
PgOffspring(r, c, v) ==
    /\ s_pc = "adapter" /\ s_par.method = "pygad" /\ a_pc = "pg_run"
    /\ ~a_stop
    /\ IF s_par.cond
       THEN /\ c > 0 => r = MaxRetry
            /\ s_cnt' = [s_cnt EXCEPT !.cond = @ + (r + 1) * s_par.n_init]
            /\ mon' = SetCond(SetCond(mon, Batch(r * s_par.n_init, 1)),
                              Batch(s_par.n_init, c))
       ELSE /\ r = 0 /\ c = 0
            /\ UNCHANGED <<mon, s_cnt>>
    /\ a_pc' = "pg_fitness"
    /\ a_n' = s_par.n_init
    /\ a_pop' = v
    /\ UNCHANGED <<s_pc, s_par, a_w, a_stop, a_exc, s_end, s_log>>
    /\ UNCHANGED <<qvars, fvars, mrest, evars, dvars>>

\* _get_callback, after each generation: eval_cond on the whole population
\* (line 55, no set_cond), get_log, get_convergence, "stop" to stop
PgCallback ==
    /\ s_pc = "adapter" /\ s_par.method = "pygad" /\ a_pc = "pg_callback"
    /\ s_cnt' = [s_cnt EXCEPT !.cond = @ + s_par.n_init]
    /\ LET m1 == GetLog(mon)
           st == Status(m1)
       IN  /\ mon' = m1
           /\ a_stop' = (st = "True")
           /\ IF st \in {"True", "False"}
              THEN a_pc' = "pg_run" /\ a_exc' = a_exc /\ s_end' = s_end
              ELSE a_pc' = "raised" /\ a_exc' = st /\ s_end' = "error"
    /\ UNCHANGED <<s_pc, s_par, a_w, a_n, a_pop, s_log>>
    /\ UNCHANGED <<qvars, fvars, mrest, evars, dvars>>

\* gad.run() returns: the callback has returned "stop", or num_generations
PgReturn ==
    /\ s_pc = "adapter" /\ s_par.method = "pygad" /\ a_pc = "pg_run"
    /\ a_pc' = "returned"
    /\ s_end' = IF a_stop THEN "converged" ELSE "budget"
    /\ UNCHANGED <<s_pc, s_par, a_w, a_n, a_stop, a_exc, a_pop, s_cnt, s_log>>
    /\ UNCHANGED <<qvars, fvars, mvars, evars, dvars>>

\* ---- optuna ----

\* get_solve, lines 154-181: the sampler and the study, then study.optimize
OptStart ==
    /\ s_pc = "adapter" /\ s_par.method = "optuna" /\ a_pc = "enter"
    /\ a_pc' = "opt_run"
    /\ UNCHANGED <<s_pc, s_par, a_w, a_n, a_stop, a_exc, a_pop, s_cnt, s_end, s_log>>
    /\ UNCHANGED <<qvars, fvars, mvars, evars, dvars>>

\* _get_fitness, line 33: a thread starts a trial and passes it to eval_obj;
\* no trial starts once the study is stopped or a trial has failed
OptFitness(w, v) ==
    /\ s_pc = "adapter" /\ s_par.method = "optuna" /\ a_pc = "opt_run"
    /\ ~a_stop
    /\ \A u \in DOMAIN a_w : a_w[u].pc # "failed"
    /\ a_w[w].pc = "idle"
    /\ a_w' = [a_w EXCEPT ![w] = [pc |-> "evaluated", obj |-> v, exc |-> "None"]]
    /\ s_cnt' = [s_cnt EXCEPT !.obj = @ + 1]
    /\ UNCHANGED <<s_pc, s_par, a_pc, a_n, a_stop, a_exc, a_pop, s_end, s_log>>
    /\ UNCHANGED <<qvars, fvars, mvars, evars, dvars>>

\* _get_fitness, line 34: set_obj
OptRecord(w) ==
    /\ s_pc = "adapter" /\ s_par.method = "optuna"
    /\ a_w[w].pc = "evaluated"
    /\ mon' = SetObjSingle(mon, a_w[w].obj)
    /\ a_w' = [a_w EXCEPT ![w].pc = IF s_par.cond THEN "constraint" ELSE "callback"]
    /\ UNCHANGED <<s_pc, s_par, a_pc, a_n, a_stop, a_exc, a_pop, s_cnt, s_end, s_log>>
    /\ UNCHANGED <<qvars, fvars, mrest, evars, dvars>>

\* _get_constraints: the sampler evaluates the constraint of the finished
\* trial, eval_cond then set_cond
OptConstraints(w, c) ==
    /\ s_pc = "adapter" /\ s_par.method = "optuna"
    /\ a_w[w].pc = "constraint"
    /\ s_cnt' = [s_cnt EXCEPT !.cond = @ + 1]
    /\ mon' = SetCondSingle(mon, c)
    /\ a_w' = [a_w EXCEPT ![w].pc = "callback"]
    /\ UNCHANGED <<s_pc, s_par, a_pc, a_n, a_stop, a_exc, a_pop, s_end, s_log>>
    /\ UNCHANGED <<qvars, fvars, mrest, evars, dvars>>

\* _get_callback, line 79: get_log
OptLog(w) ==
    /\ s_pc = "adapter" /\ s_par.method = "optuna"
    /\ a_w[w].pc = "callback"
    /\ mon' = GetLog(mon)
    /\ a_w' = [a_w EXCEPT ![w].pc = "logged"]
    /\ UNCHANGED <<s_pc, s_par, a_pc, a_n, a_stop, a_exc, a_pop, s_cnt, s_end, s_log>>
    /\ UNCHANGED <<qvars, fvars, mrest, evars, dvars>>

\* _get_callback, lines 82-86: get_convergence, study.stop() on convergence
OptCallback(w) ==
    /\ s_pc = "adapter" /\ s_par.method = "optuna"
    /\ a_w[w].pc = "logged"
    /\ LET st == Status(mon)
       IN  /\ a_stop' = (a_stop \/ st = "True")
           /\ a_w' = [a_w EXCEPT ![w] = IF st \in {"True", "False"}
                                        THEN WIdle
                                        ELSE [pc |-> "failed", obj |-> 0, exc |-> st]]
    /\ UNCHANGED <<s_pc, s_par, a_pc, a_n, a_exc, a_pop, s_cnt, s_end, s_log>>
    /\ UNCHANGED <<qvars, fvars, mvars, evars, dvars>>

\* study.optimize ends once the running trials are over: with the exception of
\* a failed trial, after study.stop(), or when n_trials is exhausted
OptReturn ==
    /\ s_pc = "adapter" /\ s_par.method = "optuna" /\ a_pc = "opt_run"
    /\ Quiescent
    /\ IF \E w \in DOMAIN a_w : a_w[w].pc = "failed"
       THEN /\ a_pc' = "raised"
            /\ \E w \in DOMAIN a_w : a_w[w].pc = "failed" /\ a_exc' = a_w[w].exc
            /\ s_end' = "error"
       ELSE /\ a_pc' = "returned"
            /\ a_exc' = a_exc
            /\ s_end' = IF a_stop THEN "converged" ELSE "budget"
    /\ UNCHANGED <<s_pc, s_par, a_w, a_n, a_stop, a_pop, s_cnt, s_log>>
    /\ UNCHANGED <<qvars, fvars, mvars, evars, dvars>>

\* ---- nevergrad ----

\* get_solve, lines 106-117: the initial values; without recomputation each
\* suggestion is asked back at once, which runs the registered cheap constraint
NgStart(c) ==
    /\ s_pc = "adapter" /\ s_par.method = "nevergrad" /\ a_pc = "enter"
    /\ IF s_par.cond /\ ~s_par.recompute
       THEN /\ s_cnt' = [s_cnt EXCEPT !.cond = @ + s_par.n_init]
            /\ mon' = SetCond(mon, Batch(s_par.n_init, c))
       ELSE UNCHANGED <<mon, s_cnt>>
    /\ a_pc' = "ng_run"
    /\ UNCHANGED <<s_pc, s_par, a_w, a_n, a_stop, a_exc, a_pop, s_end, s_log>>
    /\ UNCHANGED <<qvars, fvars, mrest, evars, dvars>>

\* optimizer.minimize asks a candidate (_get_constraints: eval_cond, set_cond)
\* and submits fct_fitness to the executor; _get_fitness, line 34: eval_obj
NgSubmit(w, c, v) ==
    /\ s_pc = "adapter" /\ s_par.method = "nevergrad" /\ a_pc = "ng_run"
    /\ a_w[w].pc = "idle"
    /\ IF s_par.cond
       THEN /\ s_cnt' = [s_cnt EXCEPT !.cond = @ + 1, !.obj = @ + 1]
            /\ mon' = SetCondSingle(mon, c)
       ELSE /\ c = 0
            /\ s_cnt' = [s_cnt EXCEPT !.obj = @ + 1]
            /\ mon' = mon
    /\ a_w' = [a_w EXCEPT ![w] = [pc |-> "evaluated", obj |-> v, exc |-> "None"]]
    /\ UNCHANGED <<s_pc, s_par, a_pc, a_n, a_stop, a_exc, a_pop, s_end, s_log>>
    /\ UNCHANGED <<qvars, fvars, mrest, evars, dvars>>

\* _get_fitness, line 35: set_obj
NgRecord(w) ==
    /\ s_par.method = "nevergrad"
    /\ a_w[w].pc = "evaluated"
    /\ mon' = SetObjSingle(mon, a_w[w].obj)
    /\ a_w' = [a_w EXCEPT ![w].pc = "recorded"]
    /\ UNCHANGED <<s_pc, s_par, a_pc, a_n, a_stop, a_exc, a_pop, s_cnt, s_end, s_log>>
    /\ UNCHANGED <<qvars, fvars, mrest, evars, dvars>>

\* _get_fitness, line 39: get_log
NgLog(w) ==
    /\ s_par.method = "nevergrad"
    /\ a_w[w].pc = "recorded"
    /\ mon' = GetLog(mon)
    /\ a_w' = [a_w EXCEPT ![w].pc = "logged"]
    /\ UNCHANGED <<s_pc, s_par, a_pc, a_n, a_stop, a_exc, a_pop, s_cnt, s_end, s_log>>
    /\ UNCHANGED <<qvars, fvars, mrest, evars, dvars>>

\* _get_fitness, lines 42-48: get_convergence; the job ends with the objective
\* or with an exception (SolverConvergenceError on convergence)
NgCheck(w) ==
    /\ s_par.method = "nevergrad"
    /\ a_w[w].pc = "logged"
    /\ LET st == Status(mon)
       IN  a_w' = [a_w EXCEPT ![w] =
                     CASE st = "False" -> [pc |-> "finished", obj |-> 0, exc |-> "None"]
                       [] st = "True" -> [pc |-> "failed", obj |-> 0,
                                          exc |-> "SolverConvergenceError"]
                       [] OTHER -> [pc |-> "failed", obj |-> 0, exc |-> st]]
    /\ UNCHANGED <<s_pc, s_par, a_pc, a_n, a_stop, a_exc, a_pop, s_cnt, s_end, s_log>>
    /\ UNCHANGED <<qvars, fvars, mvars, evars, dvars>>

\* optimizer.minimize collects a finished job and tells its value
NgTell(w) ==
    /\ s_pc = "adapter" /\ s_par.method = "nevergrad" /\ a_pc = "ng_run"
    /\ a_w[w].pc = "finished"
    /\ a_w' = [a_w EXCEPT ![w] = WIdle]
    /\ UNCHANGED <<s_pc, s_par, a_pc, a_n, a_stop, a_exc, a_pop, s_cnt, s_end, s_log>>
    /\ UNCHANGED <<qvars, fvars, mvars, evars, dvars>>

\* optimizer.minimize collects a failed job: job.result() raises its exception
\* in the main thread, which leaves the loop
NgResult(w) ==
    /\ s_pc = "adapter" /\ s_par.method = "nevergrad" /\ a_pc = "ng_run"
    /\ a_w[w].pc = "failed"
    /\ a_exc' = a_w[w].exc
    /\ a_pc' = "ng_except"
    /\ a_w' = [a_w EXCEPT ![w] = WIdle]
    /\ UNCHANGED <<s_pc, s_par, a_n, a_stop, a_pop, s_cnt, s_end, s_log>>
    /\ UNCHANGED <<qvars, fvars, mvars, evars, dvars>>

\* get_solve, lines 120-124: leaving the "with" block waits for the running
\* jobs, then "except SolverConvergenceError: pass"
NgExcept ==
    /\ s_pc = "adapter" /\ s_par.method = "nevergrad" /\ a_pc = "ng_except"
    /\ Quiescent
    /\ IF a_exc = "SolverConvergenceError"
       THEN a_pc' = "returned" /\ a_exc' = "None" /\ s_end' = "converged"
       ELSE a_pc' = "raised" /\ a_exc' = a_exc /\ s_end' = "error"
    /\ UNCHANGED <<s_pc, s_par, a_w, a_n, a_stop, a_pop, s_cnt, s_log>>
    /\ UNCHANGED <<qvars, fvars, mvars, evars, dvars>>

\* optimizer.minimize returns when its budget of trials is spent
NgReturn ==
    /\ s_pc = "adapter" /\ s_par.method = "nevergrad" /\ a_pc = "ng_run"
    /\ AllIdle
    /\ a_pc' = "returned"
    /\ s_end' = "budget"
    /\ UNCHANGED <<s_pc, s_par, a_w, a_n, a_stop, a_exc, a_pop, s_cnt, s_log>>
    /\ UNCHANGED <<qvars, fvars, mvars, evars, dvars>>

NextSolve ==
    \/ SolveStart
    \/ SolveFinish
    \/ SolveRaise
    \/ \E v \in SolveObjVals : MinStart(v)
    \/ \E v \in SolveObjVals : MinFitness(v)
    \/ MinComputeFail
    \/ MinReturn
    \/ MinExcept
    \/ DeStart
    \/ \E c \in SolveCondVals : DeConstraints(c)
    \/ \E v \in SolveObjVals : DeFitness(v)
    \/ DeComputeFail
    \/ DeCallback
    \/ DeReturn
    \/ \E v \in SolveObjVals : PgStart(v)
    \/ \E w \in DOMAIN a_w : PgFitness(w)
    \/ \E w \in DOMAIN a_w : PgRecord(w)
    \/ \E r \in 0..MaxRetry, c \in SolveCondVals, v \in SolveObjVals : PgOffspring(r, c, v)
    \/ PgCallback
    \/ PgReturn
    \/ OptStart
    \/ \E w \in DOMAIN a_w, v \in SolveObjVals : OptFitness(w, v)
    \/ \E w \in DOMAIN a_w : OptRecord(w)
    \/ \E w \in DOMAIN a_w, c \in SolveCondVals : OptConstraints(w, c)
    \/ \E w \in DOMAIN a_w : OptLog(w)
    \/ \E w \in DOMAIN a_w : OptCallback(w)
    \/ OptReturn
    \/ \E c \in SolveCondVals : NgStart(c)
    \/ \E w \in DOMAIN a_w, c \in SolveCondVals, v \in SolveObjVals : NgSubmit(w, c, v)
    \/ \E w \in DOMAIN a_w : NgRecord(w)
    \/ \E w \in DOMAIN a_w : NgLog(w)
    \/ \E w \in DOMAIN a_w : NgCheck(w)
    \/ \E w \in DOMAIN a_w : NgTell(w)
    \/ \E w \in DOMAIN a_w : NgResult(w)
    \/ NgExcept
    \/ NgReturn

SpecSolve == InitSolve /\ [][NextSolve]_vars

\* every step that can be taken is eventually taken: the compute calls return,
\* the threads run, and a backend that has been told to stop returns
SpecSolveFair == SpecSolve /\ WF_vars(NextSolve)

\* ---- properties of get_solve and the adapters ----

\* the evaluations a worker thread has started and not yet recorded
Unrecorded == Cardinality({w \in DOMAIN a_w : a_w[w].pc = "evaluated"})

\* C5: the convergence signal never leaves get_solve as an exception; a backend
\* run ended by convergence (exception caught by the adapter, stop value of the
\* callback, study.stop()) leaves the adapter with no job running, the final
\* log is then the only possible step, and it is followed by the normal return.
C5_ConvergenceReturnsNormally ==
    /\ s_pc = "raised" => a_exc # "SolverConvergenceError"
    /\ a_pc = "raised" => a_exc # "SolverConvergenceError"
    /\ s_end = "converged" =>
          /\ s_pc \in {"adapter", "returned"}
          /\ a_pc = "returned"
          /\ Quiescent
          /\ s_pc = "adapter" => ENABLED SolveFinish
          /\ s_pc = "returned" => s_log.final
    /\ s_log.final => s_pc = "returned" /\ a_pc = "returned" /\ Quiescent

\* nevergrad with two threads: one job raised the convergence exception while
\* the other one was still recording, and get_solve has returned after its
\* final log
C5_Witness ==
    /\ s_par.method = "nevergrad"
    /\ s_par.n_parallel = 2
    /\ s_end = "converged"
    /\ s_pc = "returned"
    /\ s_log.final
    /\ mon.n_eval_obj > m_cfg.n_eval_max[1]

\* C6: every objective or constraint vector handed to the compute functions is
\* recorded exactly once, by the thread that evaluated it and before that
\* thread goes on to its log and convergence check; when get_solve returns,
\* n_eval_obj and n_eval_cond equal the numbers of vectors handed over.
C6_EvaluationsRecordedOnce ==
    /\ s_pc \in {"adapter", "returned"} => mon.n_eval_obj + Unrecorded = s_cnt.obj
    /\ s_pc = "returned" =>
          /\ mon.n_eval_obj = s_cnt.obj
          /\ mon.n_eval_cond = s_cnt.cond
          /\ Len(mon.obj_list) = s_cnt.obj

\* C7: provided the compute calls return (no compute call fails), once the
\* monitor is in a state where get_convergence returns True, the adapter halts
\* and get_solve returns.
C7_ConvergedEventuallyReturns ==
    [](Status(mon) = "True" => <>(s_pc = "returned" \/ a_exc = "ComputeError"))

----------------------------------------------------------------------------
\* ---- the monitor with unset parameters ----

\* C11: with the maximum unset, get_convergence completes without error, the
\* cap never fires, and the result is the one of the sliding-window criterion
\* alone: True exactly when window, warm-up and tolerance are set, the count has
\* reached max(warm-up, window) and the relative improvement is below the
\* tolerance.
C11_UnsetMaxDisablesCap ==
    (m_conv # <<>> /\ m_cfg.n_eval_max = None) =>
        /\ m_conv[1].ret \in {"True", "False"}
        /\ m_conv[1].ret = "True" <=>
              /\ m_cfg.n_eval_conv # None
              /\ m_cfg.n_eval_init # None
              /\ m_cfg.tol_conv_cmp # None
              /\ m_conv[1].n >= Max2(m_cfg.n_eval_init[1], m_cfg.n_eval_conv[1])
              /\ C9_RelativeImprovementBelow(m_conv[1].hist, m_cfg.n_eval_conv[1],
                                             m_cfg.tol_conv_cmp)

----------------------------------------------------------------------------
\* ---- exceptions in the pools ----

InitPools == InitQueue \/ InitFct

NextPools ==
    \/ q_pc # "off" /\ NextQueue
    \/ f_pc # "off" /\ NextFct

SpecPools == InitPools /\ [][NextPools]_vars

\* the items on which the compute function has been invoked and has raised
QFailed == {i \in DOMAIN q_calls : q_calls[i] > 0 /\ FctCallPool(Zip(q_args)[i]).kind = "raise"}
FFailed == {i \in DOMAIN f_calls : f_calls[i] > 0 /\ FctCallPool(Zip(f_args)[i]).kind = "raise"}

C14_FinalLogIffReturn ==
    s_pc # "off" =>
        /\ (s_pc # "start" \/ a_pc # "off" \/ s_cnt.obj + s_cnt.cond > 0) => s_log.init
        /\ s_log.final <=> s_pc = "returned"
        /\ s_pc = "returned" => a_pc = "returned" /\ a_exc = "None"
        /\ s_end = "converged" => a_pc = "returned" /\ s_pc \in {"adapter", "returned"}
        /\ a_pc = "raised" =>
              /\ a_exc \notin {"None", "SolverConvergenceError"}
              /\ s_pc \in {"adapter", "raised"}
              /\ s_pc = "adapter" => ENABLED SolveRaise
        /\ s_pc = "raised" => (a_pc = "raised" \/ s_par.method \notin AdapterMethods)

\* a compute call failed after recorded evaluations: the exception has left
\* get_solve, the initial log is there and the final log is not
C14_Witness ==
    /\ s_pc = "raised"
    /\ a_exc = "ComputeError"
    /\ s_cnt.obj > 0
    /\ s_log.init /\ ~s_log.final

----------------------------------------------------------------------------
\* ---- the design encoder: src/pyfreecoil/design/encoding_design.py ----

\* Floating-point numbers are non-negative integers counting units of 1e-9;
\* the not-a-number, which marks the free variables of the fixed mask, is a
\* value apart from them.
NaN == -1

\* Bound: length of the vectors handed to get_expand / get_reduce.
MaxVec == 3

\* np.allclose(a, b) with its default tolerances: atol = 1e-8, rtol = 1e-5
Atol == 10
RtolInv == 100000

\* values of a fixed variable in the mask, of a free variable, and of a
\* position of a candidate vector (equal to, close to and away from them)
FixedVals == {0, 2000000}
FreeVals == {5, 2000050}
CandidateVals == {0, 5, 30, 2000000, 2000020, 2000050}

AbsVal(a) == IF a < 0 THEN 0 - a ELSE a

\* one element of np.allclose: |a - b| <= atol + rtol * |b|, never for a NaN
\* (on whole units, d <= rtol * |b| is d <= |b| \div (1 / rtol))
IsClose(a, b) ==
    /\ a # NaN /\ b # NaN
    /\ AbsVal(a - b) - Atol <= AbsVal(b) \div RtolInv

\* np.isnan / np.isfinite of a vector: the boolean index arrays
IsNan(x) == [k \in 1..Len(x) |-> x[k] = NaN]
IsFinite(x) == [k \in 1..Len(x) |-> x[k] # NaN]

\* np.count_nonzero of a boolean array up to position k
CountUpTo(idx, k) == Cardinality({j \in 1..k : idx[j]})

\* x[idx] with a boolean index array: the selected elements, in order
BoolIndex(x, idx) ==
    LET F[k \in 0..Len(x)] ==
            IF k = 0 THEN <<>>
            ELSE IF idx[k] THEN Append(F[k - 1], x[k]) ELSE F[k - 1]
    IN  F[Len(x)]

\* the outcome of a call: the value returned, or the exception raised
Ret(val) == [ex |-> "None", val |-> val]
Raise(ex) == [ex |-> ex, val |-> None]

\* a get_expand that fills the free positions from the end of x_free
GetExpandReversed(xfree, xfixed) ==
    LET idx_free == IsNan(xfixed)
        n_free == CountUpTo(idx_free, Len(xfixed))
    IN  IF Len(xfree) # n_free
        THEN Raise("ValueError")
        ELSE Ret([k \in 1..Len(xfixed) |->
                    IF idx_free[k] THEN xfree[n_free + 1 - CountUpTo(idx_free, k)]
                    ELSE xfixed[k]])

\* get_expand, lines 433-447: a copy of the mask whose free positions receive
\* the free variables in order (a single value is broadcast, any other length
\* mismatch raises)
GetExpand(xfree, xfixed) ==
    LET idx_free == IsNan(xfixed)
        n_free == CountUpTo(idx_free, Len(xfixed))
    IN  IF Len(xfree) = n_free
        THEN Ret([k \in 1..Len(xfixed) |->
                    IF idx_free[k] THEN xfree[CountUpTo(idx_free, k)] ELSE xfixed[k]])
        ELSE IF Len(xfree) = 1
        THEN Ret([k \in 1..Len(xfixed) |-> IF idx_free[k] THEN xfree[1] ELSE xfixed[k]])
        ELSE Raise("ValueError")

\* a get_reduce without the check of the fixed variables
GetReduceUnchecked(xall, xfixed) ==
    IF Len(xall) # Len(xfixed)
    THEN Raise("IndexError")
    ELSE Ret(BoolIndex(xall, IsNan(xfixed)))

\* get_reduce, lines 413-430: the free part of the vector, after the assertion
\* that the fixed part is close to the fixed values of the mask
GetReduce(xall, xfixed) ==
    IF Len(xall) # Len(xfixed)
    THEN Raise("IndexError")
    ELSE LET idx_free == IsNan(xfixed)
             idx_fixed == IsFinite(xfixed)
             xfree == BoolIndex(xall, idx_free)
             x_fixed_test == BoolIndex(xall, idx_fixed)
             x_fixed_given == BoolIndex(xfixed, idx_fixed)
         IN  IF \A k \in 1..Len(x_fixed_given) : IsClose(x_fixed_test[k], x_fixed_given[k])
             THEN Ret(xfree)
             ELSE Raise("AssertionError")

\* the sequences of length n over a set
SeqsOfLen(S, n) == [1..n -> S]

\* the fixed masks: every mix of fixed and free positions
Masks == UNION {SeqsOfLen(FixedVals \cup {NaN}, n) : n \in 1..MaxVec}

\* no encoding, geometry or resampling in the calls on the mask
MaskOnly == data_encoding = None /\ data_coil = None /\ e_in = None

\* a free vector to expand and reduce again (wrapper_optim.py, lines 38 and
\* 57), or a candidate vector to reduce (wrapper_optim.py, line 109)
InitMask ==
    /\ QOff /\ FOff /\ MOff /\ SOff /\ DOff
    /\ MaskOnly
    /\ x_fixed \in Masks
    /\ e_out = None
    /\ \/ /\ e_pc = "free"
          /\ x_free \in SeqsOfLen(FreeVals, CountUpTo(IsNan(x_fixed), Len(x_fixed)))
          /\ x_all = None
       \/ /\ e_pc = "candidate"
          /\ x_free = None
          /\ x_all \in SeqsOfLen(CandidateVals, Len(x_fixed))

EGetExpand ==
    /\ e_pc = "free"
    /\ x_all' = GetExpand(x_free, x_fixed).val
    /\ e_pc' = "expanded"
    /\ UNCHANGED <<data_encoding, x_fixed, x_free, data_coil, e_out, e_in>>
    /\ UNCHANGED <<qvars, fvars, mvars, svars, dvars>>

EGetReduce ==
    /\ e_pc \in {"expanded", "candidate"}
    /\ e_out' = GetReduce(x_all, x_fixed)
    /\ e_pc' = "reduced"
    /\ UNCHANGED <<data_encoding, x_fixed, x_free, x_all, data_coil, e_in>>
    /\ UNCHANGED <<qvars, fvars, mvars, svars, dvars>>

NextMask == EGetExpand \/ EGetReduce

SpecMask == InitMask /\ [][NextMask]_vars

\* ---- properties of the fixed mask ----

\* C15: for a mask and a free vector that has one value per free position,
\* get_reduce(get_expand(f, m), m) passes the check of the fixed values and
\* returns exactly f.
C15_ReduceExpandInverse ==
    (e_pc = "reduced" /\ x_free # None) => e_out = Ret(x_free)

\* a mask with a fixed position between two free ones, and two different
\* free values
C15_Witness ==
    /\ e_pc = "reduced" /\ x_free # None
    /\ Len(x_fixed) = 3
    /\ x_fixed[1] = NaN /\ x_fixed[2] # NaN /\ x_fixed[3] = NaN
    /\ x_free[1] # x_free[2]
    /\ e_out.ex = "None"

\* the fixed positions of the mask where the vector is beyond the tolerance
Perturbed ==
    {k \in 1..Len(x_fixed) :
        /\ x_fixed[k] # NaN
        /\ AbsVal(x_all[k] - x_fixed[k]) > Atol + AbsVal(x_fixed[k]) \div RtolInv}

\* C16: get_reduce fails, and returns no free vector, when a fixed position of
\* the mask holds in the vector a value beyond the tolerance from the stored
\* one; it succeeds when all the fixed positions agree, and then returns the
\* values at the free positions.
C16_ReduceChecksFixed ==
    e_pc = "reduced" =>
        /\ Perturbed # {} => e_out = Raise("AssertionError")
        /\ Perturbed = {} =>
              /\ e_out.ex = "None"
              /\ Len(e_out.val) = Cardinality({k \in 1..Len(x_fixed) : x_fixed[k] = NaN})
              /\ \A k \in 1..Len(x_fixed) :
                    x_fixed[k] = NaN => e_out.val[CountUpTo(IsNan(x_fixed), k)] = x_all[k]

\* a candidate vector refused for one fixed position, with another fixed
\* position that differs from the stored value within the tolerance
C16_Witness ==
    /\ e_pc = "reduced" /\ x_free = None
    /\ e_out.ex = "AssertionError"
    /\ Cardinality(Perturbed) = 1
    /\ \E k \in 1..Len(x_fixed) :
          x_fixed[k] # NaN /\ x_all[k] # x_fixed[k] /\ k \notin Perturbed

----------------------------------------------------------------------------
\* ---- get_encode / get_decode ----

\* Bounds: largest number of nodes of a geometry handed to get_encode, and
\* largest layer code of a code list.
MaxNodesEnc == 3
MaxLayer == 4

\* The scaled values are exact fractions [n, d] with d > 0, in lowest terms.
RECURSIVE Gcd(_, _)
Gcd(a, b) == IF b = 0 THEN a ELSE Gcd(b, a % b)

Q(n, d) ==
    LET s == IF d < 0 THEN 0 - 1 ELSE 1
        g == Gcd(AbsVal(n), AbsVal(d))
    IN  [n |-> (s * n) \div g, d |-> (s * d) \div g]

\* np.array(val, dtype=np.float64) of a whole number
ToFloat(v) == Q(v, 1)

QSubInt(q, k) == Q(q.n - k * q.d, q.d)
QAddInt(k, q) == Q(q.n + k * q.d, q.d)
QMulInt(q, k) == Q(q.n * k, q.d)
QDivInt(q, k) == Q(q.n, q.d * k)

\* np.round: to the nearest whole number, a half to the even one
RoundQ(q) ==
    LET fl == q.n \div q.d
        rem == q.n - fl * q.d
    IN  IF 2 * rem < q.d THEN fl
        ELSE IF 2 * rem > q.d THEN fl + 1
        ELSE IF fl % 2 = 0 THEN fl ELSE fl + 1

\* _encode_float, lines 112-127, on one value
EncodeFloat(val, val_min, val_max, norm_min, norm_max) ==
    LET v == QDivInt(QSubInt(val, val_min), val_max - val_min)
    IN  QAddInt(norm_min, QMulInt(v, norm_max - norm_min))

\* _decode_float, lines 97-110, on one value
DecodeFloat(val, val_min, val_max, norm_min, norm_max) ==
    LET v == QDivInt(QSubInt(val, norm_min), norm_max - norm_min)
    IN  QAddInt(val_min, QMulInt(v, val_max - val_min))

\* np.searchsorted(a, v), side left: the bisection numpy runs on the list
RECURSIVE Bisect(_, _, _, _)
Bisect(a, v, lo, hi) ==
    IF lo >= hi THEN lo
    ELSE LET mid == lo + (hi - lo) \div 2
         IN  IF a[mid + 1] < v THEN Bisect(a, v, mid + 1, hi) ELSE Bisect(a, v, lo, mid)

SearchSorted(a, v) == Bisect(a, v, 0, Len(a))

\* np.in1d(val, val_discrete), all true
AllIn(val, val_discrete) ==
    \A k \in 1..Len(val) : \E j \in 1..Len(val_discrete) : val_discrete[j] = val[k]

\* an _encode_int that returns the insertion point of a value even when the
\* value is not in the list
EncodeIntUnchecked(val, val_discrete) ==
    Ret([k \in 1..Len(val) |-> ToFloat(SearchSorted(val_discrete, val[k]))])

\* _encode_int, lines 80-95: the assertion that every value is in the list,
\* then the position of each value, cast to float
EncodeInt(val, val_discrete) ==
    IF ~AllIn(val, val_discrete)
    THEN Raise("AssertionError")
    ELSE Ret([k \in 1..Len(val) |-> ToFloat(SearchSorted(val_discrete, val[k]))])

\* _decode_int, lines 64-78: list and values rounded to integers, then the
\* values index the list (a negative index counts from the end)
DecodeInt(val, val_discrete) ==
    LET lst == [j \in 1..Len(val_discrete) |-> RoundQ(ToFloat(val_discrete[j]))]
        idx == [k \in 1..Len(val) |-> RoundQ(val[k])]
        n == Len(lst)
    IN  IF \E k \in 1..Len(idx) : idx[k] >= n \/ idx[k] < 0 - n
        THEN Raise("IndexError")
        ELSE Ret([k \in 1..Len(idx) |->
                    IF idx[k] >= 0 THEN lst[idx[k] + 1] ELSE lst[n + idx[k] + 1]])

\* the positions (counted from 0) of the slice x[k : 4 * n_wdg - 1 : 4] of a
\* vector of length len
Slots(k, n_wdg, len) == {p \in 0..(len - 1) : p < 4 * n_wdg - 1 /\ p % 4 = k}

\* a _get_variable_zip that leaves the arrays one after the other
VariableZipBlocks(n_wdg, x_split) ==
    LET cat == x_split[1] \o x_split[2] \o x_split[3] \o x_split[4]
    IN  IF Len(cat) # 4 * n_wdg - 1 THEN Raise("AssertionError") ELSE Ret(cat)

\* _get_variable_zip, lines 17-38: the concatenation of the four arrays is
\* overwritten slice by slice with the interleaved values, then the length
\* is asserted
VariableZip(n_wdg, x_split) ==
    LET cat == x_split[1] \o x_split[2] \o x_split[3] \o x_split[4]
        len == Len(cat)
        fits(k) == LET c == Cardinality(Slots(k, n_wdg, len))
                   IN  Len(x_split[k + 1]) = c \/ Len(x_split[k + 1]) = 1
        elem(p) == LET part == x_split[(p % 4) + 1]
                   IN  IF Len(part) = 1 THEN part[1] ELSE part[(p \div 4) + 1]
    IN  IF \E k \in 0..3 : Slots(k, n_wdg, len) # {} /\ ~fits(k)
        THEN Raise("ValueError")
        ELSE IF len # 4 * n_wdg - 1
        THEN Raise("AssertionError")
        ELSE Ret([i \in 1..len |-> elem(i - 1)])

\* _get_variable_split, lines 41-61: the length is asserted, then the four
\* strided slices are taken
VariableSplit(n_wdg, x) ==
    IF Len(x) # 4 * n_wdg - 1
    THEN Raise("AssertionError")
    ELSE LET part(k) == [j \in 1..Cardinality(Slots(k, n_wdg, Len(x))) |-> x[4 * (j - 1) + k + 1]]
         IN  Ret(<<part(0), part(1), part(2), part(3)>>)

\* get_encode, lines 368-410
GetEncode(dc, de) ==
    IF \/ de.n_wdg # dc.n_wdg
       \/ Len(dc.coord_wdg) # de.n_wdg
       \/ Len(dc.width_wdg) # de.n_wdg
       \/ Len(dc.layer_wdg) # de.n_wdg - 1
    THEN Raise("AssertionError")
    ELSE LET x_wdg == [i \in 1..de.n_wdg |->
                 EncodeFloat(ToFloat(dc.coord_wdg[i][1]), de.x_min, de.x_max, de.norm_min, de.norm_max)]
             y_wdg == [i \in 1..de.n_wdg |->
                 EncodeFloat(ToFloat(dc.coord_wdg[i][2]), de.y_min, de.y_max, de.norm_min, de.norm_max)]
             width_wdg == [i \in 1..de.n_wdg |->
                 EncodeFloat(ToFloat(dc.width_wdg[i]), de.width_min, de.width_max, de.norm_min, de.norm_max)]
             layer_wdg == EncodeInt(dc.layer_wdg, de.layer_list)
         IN  IF layer_wdg.ex # "None"
             THEN layer_wdg
             ELSE VariableZip(de.n_wdg, <<x_wdg, y_wdg, width_wdg, layer_wdg.val>>)

\* get_decode, lines 324-365: the geometry holds the unscaled values
GetDecode(x, de) ==
    LET x_split == VariableSplit(de.n_wdg, x)
    IN  IF x_split.ex # "None"
        THEN x_split
        ELSE LET x_wdg == [i \in 1..de.n_wdg |->
                     DecodeFloat(x_split.val[1][i], de.x_min, de.x_max, de.norm_min, de.norm_max)]
                 y_wdg == [i \in 1..de.n_wdg |->
                     DecodeFloat(x_split.val[2][i], de.y_min, de.y_max, de.norm_min, de.norm_max)]
                 width_wdg == [i \in 1..de.n_wdg |->
                     DecodeFloat(x_split.val[3][i], de.width_min, de.width_max, de.norm_min, de.norm_max)]
                 layer_wdg == DecodeInt(x_split.val[4], de.layer_list)
             IN  IF layer_wdg.ex # "None"
                 THEN layer_wdg
                 ELSE Ret([n_wdg |-> de.n_wdg,
                           coord_wdg |-> [i \in 1..de.n_wdg |-> <<x_wdg[i], y_wdg[i]>>],
                           width_wdg |-> width_wdg,
                           layer_wdg |-> layer_wdg.val])

\* the values of the nodes of a geometry, and the code lists: sorted, without
\* duplicates
XVals == {0, 3}
YVals == {1}
WidthVals == {2, 5}
LayerVals == {1, 2, 3, 4}
EncLayerLists == {<<1, 2>>, <<1, 3, 4>>}

\* the ranges of the affine maps: domain_min < domain_max, norm_min < norm_max
XRanges == {<<-2, 5>>}
NormRanges == {<<-1, 1>>}

Encodings ==
    {[n_wdg |-> n, layer_list |-> ll,
      x_min |-> xr[1], x_max |-> xr[2], y_min |-> 0, y_max |-> 3,
      width_min |-> 1, width_max |-> 6,
      norm_min |-> nr[1], norm_max |-> nr[2],
      n_mask_src |-> 0, n_mask_sink |-> 0] :
        n \in 2..MaxNodesEnc, ll \in EncLayerLists, xr \in XRanges, nr \in NormRanges}

\* the geometries: N coordinates, N widths, N - 1 layer codes, N >= 2
EncGeometries ==
    UNION {[n_wdg : {n},
            coord_wdg : SeqsOfLen(XVals \X YVals, n),
            width_wdg : SeqsOfLen(WidthVals, n),
            layer_wdg : SeqsOfLen(LayerVals, n - 1)] : n \in 2..MaxNodesEnc}

InitEncode ==
    /\ QOff /\ FOff /\ MOff /\ SOff /\ DOff
    /\ e_pc = "geometry"
    /\ data_encoding \in Encodings
    /\ data_coil \in EncGeometries
    /\ x_fixed = None /\ x_free = None /\ x_all = None /\ e_out = None /\ e_in = None

EGetEncode ==
    /\ e_pc = "geometry"
    /\ LET r == GetEncode(data_coil, data_encoding)
       IN  /\ e_out' = r
           /\ IF r.ex = "None"
              THEN e_pc' = "encoded" /\ x_all' = r.val
              ELSE e_pc' = "raised" /\ UNCHANGED x_all
    /\ UNCHANGED <<data_encoding, x_fixed, x_free, data_coil, e_in>>
    /\ UNCHANGED <<qvars, fvars, mvars, svars, dvars>>

EGetDecode ==
    /\ e_pc = "encoded"
    /\ e_out' = GetDecode(x_all, data_encoding)
    /\ e_pc' = "decoded"
    /\ UNCHANGED <<data_encoding, x_fixed, x_free, x_all, data_coil, e_in>>
    /\ UNCHANGED <<qvars, fvars, mvars, svars, dvars>>

NextEncode == EGetEncode \/ EGetDecode

SpecEncode == InitEncode /\ [][NextEncode]_vars

\* ---- properties of get_encode / get_decode ----

\* the geometry fits the encoding: same N, all layer codes in the code list
Encodable ==
    /\ data_coil.n_wdg = data_encoding.n_wdg
    /\ \A k \in 1..Len(data_coil.layer_wdg) :
          \E j \in 1..Len(data_encoding.layer_list) :
              data_encoding.layer_list[j] = data_coil.layer_wdg[k]

\* the affine map of a field, written out
Scaled(v, lo, hi) ==
    Q(data_encoding.norm_min * (hi - lo) + (v - lo) * (data_encoding.norm_max - data_encoding.norm_min),
      hi - lo)

\* C17: for a geometry with N nodes that fits the encoding, get_encode
\* returns a vector of length 4N-1 with the scaled x, y and width and the layer
\* index of node i at positions 4i, 4i+1, 4i+2 and 4i+3, and get_decode of that
\* vector returns N nodes, the same layer codes and the same coordinates and
\* widths (the affine scaling being exact).
C17_EncodeLayoutRoundTrip ==
    /\ (e_pc # "off" /\ e_pc # "geometry" /\ data_coil # None /\ x_fixed = None) =>
          (Encodable <=> e_pc \in {"encoded", "decoded"})
    /\ (e_pc \in {"encoded", "decoded"} /\ data_coil # None /\ x_fixed = None) =>
          LET n == data_coil.n_wdg
              de == data_encoding
          IN  /\ Len(x_all) = 4 * n - 1
              /\ \A i \in 0..(n - 1) :
                    /\ x_all[4 * i + 1] = Scaled(data_coil.coord_wdg[i + 1][1], de.x_min, de.x_max)
                    /\ x_all[4 * i + 2] = Scaled(data_coil.coord_wdg[i + 1][2], de.y_min, de.y_max)
                    /\ x_all[4 * i + 3] = Scaled(data_coil.width_wdg[i + 1], de.width_min, de.width_max)
                    /\ i < n - 1 =>
                          /\ x_all[4 * i + 4].d = 1
                          /\ x_all[4 * i + 4].n \in 0..(Len(de.layer_list) - 1)
                          /\ de.layer_list[x_all[4 * i + 4].n + 1] = data_coil.layer_wdg[i + 1]
    /\ (e_pc = "decoded" /\ data_coil # None /\ x_fixed = None) =>
          /\ e_out.ex = "None"
          /\ e_out.val.n_wdg = data_coil.n_wdg
          /\ e_out.val.layer_wdg = data_coil.layer_wdg
          /\ e_out.val.width_wdg = [i \in 1..data_coil.n_wdg |-> ToFloat(data_coil.width_wdg[i])]
          /\ e_out.val.coord_wdg = [i \in 1..data_coil.n_wdg |->
                <<ToFloat(data_coil.coord_wdg[i][1]), ToFloat(data_coil.coord_wdg[i][2])>>]

\* a geometry of three nodes with two different layer codes and different
\* coordinates and widths, encoded to fractions and decoded
C17_Witness ==
    /\ e_pc = "decoded" /\ data_coil # None /\ x_fixed = None
    /\ data_coil.n_wdg = 3
    /\ data_coil.layer_wdg[1] # data_coil.layer_wdg[2]
    /\ data_coil.coord_wdg[1] # data_coil.coord_wdg[2]
    /\ data_coil.width_wdg[2] # data_coil.width_wdg[3]
    /\ x_all[1].d # 1

----------------------------------------------------------------------------
\* ---- _encode_int / _decode_int on their own ----

\* the code lists: sorted, without duplicates, codes in 1..MaxLayer
CodeLists ==
    {s \in UNION {SeqsOfLen(1..MaxLayer, n) : n \in 1..MaxLayer} :
        \A i \in 1..Len(s), j \in 1..Len(s) : i < j => s[i] < s[j]}

\* arrays of one or two layer values, in the list or not, and of one or two
\* indices, in the range of the list or not
CodeArrays == SeqsOfLen(0..(MaxLayer + 1), 1) \cup SeqsOfLen(0..(MaxLayer + 1), 2)
IndexArrays == SeqsOfLen(-1..MaxLayer, 1) \cup SeqsOfLen(-1..MaxLayer, 2)

InitCode ==
    /\ QOff /\ FOff /\ MOff /\ SOff /\ DOff
    /\ data_encoding \in [layer_list : CodeLists]
    /\ x_fixed = None /\ x_free = None /\ e_out = None /\ e_in = None
    /\ \/ /\ e_pc = "value"
          /\ data_coil \in [layer_wdg : CodeArrays]
          /\ x_all = None
       \/ /\ e_pc = "index"
          /\ data_coil = [layer_wdg |-> None]
          /\ \E idx \in IndexArrays : x_all = [k \in 1..Len(idx) |-> ToFloat(idx[k])]

EEncodeInt ==
    /\ e_pc \in {"value", "index_decoded"}
    /\ LET r == EncodeInt(data_coil.layer_wdg, data_encoding.layer_list)
       IN  /\ e_out' = r
           /\ e_pc' = IF r.ex # "None" THEN "code_raised"
                      ELSE IF e_pc = "value" THEN "value_encoded" ELSE "index_encoded"
           /\ x_all' = IF r.ex = "None" /\ e_pc = "value" THEN r.val ELSE x_all
    /\ UNCHANGED <<data_encoding, x_fixed, x_free, data_coil, e_in>>
    /\ UNCHANGED <<qvars, fvars, mvars, svars, dvars>>

EDecodeInt ==
    /\ e_pc \in {"value_encoded", "index"}
    /\ LET r == DecodeInt(x_all, data_encoding.layer_list)
       IN  /\ e_out' = r
           /\ e_pc' = IF r.ex # "None" THEN "code_raised"
                      ELSE IF e_pc = "index" THEN "index_decoded" ELSE "value_decoded"
           /\ data_coil' = IF r.ex = "None" /\ e_pc = "index"
                           THEN [layer_wdg |-> r.val] ELSE data_coil
    /\ UNCHANGED <<data_encoding, x_fixed, x_free, x_all, e_in>>
    /\ UNCHANGED <<qvars, fvars, mvars, svars, dvars>>

NextCode == EEncodeInt \/ EDecodeInt

SpecCode == InitCode /\ [][NextCode]_vars

\* ---- properties of the discrete code list ----

\* the layer values that are in the code list
InList(v) == \E j \in 1..Len(data_encoding.layer_list) : data_encoding.layer_list[j] = v

\* the indices the call started from are all in 0..len(list)-1
IndexInRange ==
    \A k \in 1..Len(x_all) :
        x_all[k].d = 1 /\ x_all[k].n \in 0..(Len(data_encoding.layer_list) - 1)

\* C18: with a sorted code list without duplicates, encoding a value of the list
\* gives its index in the list and decoding that index gives the value back;
\* decoding an index in 0..len(list)-1 and encoding the result gives the index
\* back; encoding a value that is not in the list fails.
C18_CodeListRoundTrip ==
    /\ e_pc \in {"value_encoded", "value_decoded"} =>
          /\ \A k \in 1..Len(data_coil.layer_wdg) :
                /\ InList(data_coil.layer_wdg[k])
                /\ x_all[k].d = 1
                /\ x_all[k].n \in 0..(Len(data_encoding.layer_list) - 1)
                /\ data_encoding.layer_list[x_all[k].n + 1] = data_coil.layer_wdg[k]
    /\ e_pc = "value_decoded" => e_out = Ret(data_coil.layer_wdg)
    /\ (e_pc = "code_raised" /\ x_all = None) =>
          /\ e_out = Raise("AssertionError")
          /\ \E k \in 1..Len(data_coil.layer_wdg) : ~InList(data_coil.layer_wdg[k])
    /\ (e_pc \in {"index_decoded", "index_encoded", "code_raised"} /\ x_all # None /\ IndexInRange) =>
          /\ e_pc # "code_raised"
          /\ e_pc = "index_encoded" => e_out = Ret(x_all)

\* two values of a list with a gap, whose indices are not the values, encoded
\* and decoded
C18_Witness ==
    /\ e_pc = "value_decoded"
    /\ Len(data_encoding.layer_list) = 3
    /\ Len(data_coil.layer_wdg) = 2
    /\ data_coil.layer_wdg[1] > data_coil.layer_wdg[2]
    /\ \A k \in 1..2 : x_all[k].n + 1 # data_coil.layer_wdg[k]

----------------------------------------------------------------------------
\* ---- get_resample ----

\* Bounds: largest number of nodes of a geometry handed to get_resample, and
\* largest number of nodes asked for (n_wdg of the encoding).
MaxNodesRes == 3
MaxTarget == 4

\* Coordinates and widths are whole multiples of Unit, a power of two, so that
\* the midpoints of the successive splits (MaxTarget - 2 at most, from two
\* nodes) are whole numbers as well.
Unit == 2 ^ (MaxTarget - 2)

\* (a + b) / 2 of two such values
Mid(a, b) == (a + b) \div 2

\* np.insert(arr, pos, val), pos counted from 0
InsertAt(arr, pos, val) == SubSeq(arr, 1, pos) \o <<val>> \o SubSeq(arr, pos + 1, Len(arr))

\* twice the length of segment i: sqrt(sq) - buf, with sq four times the
\* squared distance of the end nodes and buf the sum of their widths; ninf
\* marks np.NINF
SegLength(dc, i) ==
    LET dx == dc.coord_wdg[i + 1][1] - dc.coord_wdg[i][1]
        dy == dc.coord_wdg[i + 1][2] - dc.coord_wdg[i][2]
    IN  [ninf |-> FALSE, sq |-> 4 * (dx * dx + dy * dy),
         buf |-> dc.width_wdg[i] + dc.width_wdg[i + 1]]

\* sqrt(a) - p > sqrt(c) - r, decided on whole numbers
GtRoot(a, p, c, r) ==
    LET d == p - r
        s == a + c - d * d
    IN  IF d = 0 THEN a > c
        ELSE IF d < 0 THEN a >= c \/ s < 0 \/ s * s < 4 * a * c
        ELSE a > c /\ s > 0 /\ s * s > 4 * a * c

\* l1 > l2 for two segment lengths
Longer(l1, l2) ==
    /\ ~l1.ninf
    /\ l2.ninf \/ GtRoot(l1.sq, l1.buf, l2.sq, l2.buf)

\* np.argmax: the first index (counted from 1) of a largest element
ArgMax(length) ==
    CHOOSE i \in 1..Len(length) :
        /\ \A j \in 1..Len(length) : ~Longer(length[j], length[i])
        /\ \A j \in 1..(i - 1) : Longer(length[i], length[j])

\* the lengths after "length[:+n_mask_src] = np.NINF" and
\* "length[-n_mask_sink:] = np.NINF"
MaskedLength(dc, n_mask_src, n_mask_sink) ==
    LET m == Len(dc.coord_wdg) - 1
    IN  [i \in 1..m |->
            IF \/ n_mask_src > 0 /\ i <= n_mask_src
               \/ n_mask_sink > 0 /\ i > m - n_mask_sink
            THEN [ninf |-> TRUE, sq |-> 0, buf |-> 0]
            ELSE SegLength(dc, i)]

\* a _get_winding_split that does not insert the layer of the new segment
WindingSplitNoLayer(dc, n_mask_src, n_mask_sink) ==
    LET length == MaskedLength(dc, n_mask_src, n_mask_sink)
    IN  IF Len(length) = 0
        THEN Raise("ValueError")
        ELSE LET i == ArgMax(length)
                 coord_tmp == <<Mid(dc.coord_wdg[i][1], dc.coord_wdg[i + 1][1]),
                                Mid(dc.coord_wdg[i][2], dc.coord_wdg[i + 1][2])>>
                 width_tmp == Mid(dc.width_wdg[i], dc.width_wdg[i + 1])
             IN  Ret([n_wdg |-> dc.n_wdg + 1,
                      coord_wdg |-> InsertAt(dc.coord_wdg, i, coord_tmp),
                      width_wdg |-> InsertAt(dc.width_wdg, i, width_tmp),
                      layer_wdg |-> dc.layer_wdg])

\* _get_winding_split, lines 130-176: one node is inserted in the middle of
\* the segment np.argmax returns (of an empty array: ValueError)
WindingSplit(dc, n_mask_src, n_mask_sink) ==
    LET length == MaskedLength(dc, n_mask_src, n_mask_sink)
    IN  IF Len(length) = 0
        THEN Raise("ValueError")
        ELSE LET i == ArgMax(length)
                 layer_tmp == dc.layer_wdg[i]
                 coord_tmp == <<Mid(dc.coord_wdg[i][1], dc.coord_wdg[i + 1][1]),
                                Mid(dc.coord_wdg[i][2], dc.coord_wdg[i + 1][2])>>
                 width_tmp == Mid(dc.width_wdg[i], dc.width_wdg[i + 1])
             IN  Ret([n_wdg |-> dc.n_wdg + 1,
                      coord_wdg |-> InsertAt(dc.coord_wdg, i, coord_tmp),
                      width_wdg |-> InsertAt(dc.width_wdg, i, width_tmp),
                      layer_wdg |-> InsertAt(dc.layer_wdg, i, layer_tmp)])

\* the geometries handed to get_resample: two nodes or more, the first one at
\* the origin, the segments numbered by their layer codes
ResCoords == {<<0, 0>>, <<3 * Unit, 0>>, <<3 * Unit, 4 * Unit>>}
ResWidths == {Unit, 2 * Unit}
ResGeometries ==
    UNION {[n_wdg : {n},
            coord_wdg : {c \in SeqsOfLen(ResCoords, n) : c[1] = <<0, 0>>},
            width_wdg : SeqsOfLen(ResWidths, n),
            layer_wdg : {[i \in 1..(n - 1) |-> i]}] : n \in 2..MaxNodesRes}

\* the mask counts of the encoding
MaskCounts == {0, 1}

ResEncodings ==
    [n_wdg : 2..MaxTarget, n_mask_src : MaskCounts, n_mask_sink : MaskCounts]

InitResample ==
    /\ QOff /\ FOff /\ MOff /\ SOff /\ DOff
    /\ e_pc = "resample"
    /\ data_encoding \in ResEncodings
    /\ e_in \in ResGeometries
    /\ data_coil = e_in
    /\ x_fixed = None /\ x_free = None /\ x_all = None /\ e_out = None

\* get_resample, lines 250-254: the assertion on the number of points
EResampleStart ==
    /\ e_pc = "resample"
    /\ IF data_coil.n_wdg <= data_encoding.n_wdg
       THEN e_pc' = "resample_loop" /\ UNCHANGED e_out
       ELSE e_pc' = "resample_raised" /\ e_out' = Raise("AssertionError")
    /\ UNCHANGED <<data_encoding, x_fixed, x_free, x_all, data_coil, e_in>>
    /\ UNCHANGED <<qvars, fvars, mvars, svars, dvars>>

\* get_resample, lines 257-259: one turn of the loop
EWindingSplit ==
    /\ e_pc = "resample_loop"
    /\ data_coil.n_wdg < data_encoding.n_wdg
    /\ LET r == WindingSplit(data_coil, data_encoding.n_mask_src, data_encoding.n_mask_sink)
       IN  IF r.ex = "None"
           THEN data_coil' = r.val /\ UNCHANGED <<e_pc, e_out>>
           ELSE e_pc' = "resample_raised" /\ e_out' = r /\ UNCHANGED data_coil
    /\ UNCHANGED <<data_encoding, x_fixed, x_free, x_all, e_in>>
    /\ UNCHANGED <<qvars, fvars, mvars, svars, dvars>>

\* get_resample, lines 261-264: the loop has ended, the final assertion
EResampleReturn ==
    /\ e_pc = "resample_loop"
    /\ ~(data_coil.n_wdg < data_encoding.n_wdg)
    /\ IF data_coil.n_wdg = data_encoding.n_wdg
       THEN e_pc' = "resample_returned" /\ e_out' = Ret(data_coil)
       ELSE e_pc' = "resample_raised" /\ e_out' = Raise("AssertionError")
    /\ UNCHANGED <<data_encoding, x_fixed, x_free, x_all, data_coil, e_in>>
    /\ UNCHANGED <<qvars, fvars, mvars, svars, dvars>>

NextResample == EResampleStart \/ EWindingSplit \/ EResampleReturn

SpecResample == InitResample /\ [][NextResample]_vars

\* every step of the loop that can be taken is eventually taken
SpecResampleFair == SpecResample /\ WF_vars(NextResample)

\* ---- properties of get_resample ----

\* the shape of a geometry
WellShaped(dc) ==
    /\ Len(dc.coord_wdg) = dc.n_wdg
    /\ Len(dc.width_wdg) = dc.n_wdg
    /\ Len(dc.layer_wdg) = dc.n_wdg - 1

\* C19: for a geometry with at most n_wdg nodes get_resample terminates; each
\* step of its loop adds exactly one node, one coordinate, one width and one
\* layer code, the shape holding after every step; the result has exactly
\* n_wdg nodes, and a geometry that already has n_wdg nodes is returned as it
\* is.
C19_ResampleGrowsToTarget ==
    /\ [](e_pc \in {"resample", "resample_loop", "resample_returned", "resample_raised"} =>
            /\ WellShaped(data_coil)
            /\ e_pc = "resample_raised" => e_in.n_wdg > data_encoding.n_wdg
            /\ e_pc = "resample_returned" =>
                  /\ e_out.val.n_wdg = data_encoding.n_wdg
                  /\ WellShaped(e_out.val)
                  /\ e_in.n_wdg = data_encoding.n_wdg => e_out.val = e_in)
    /\ [][EWindingSplit =>
            /\ data_coil'.n_wdg = data_coil.n_wdg + 1
            /\ Len(data_coil'.coord_wdg) = Len(data_coil.coord_wdg) + 1
            /\ Len(data_coil'.width_wdg) = Len(data_coil.width_wdg) + 1
            /\ Len(data_coil'.layer_wdg) = Len(data_coil.layer_wdg) + 1]_vars
    /\ (e_pc = "resample" /\ e_in.n_wdg <= data_encoding.n_wdg) ~> (e_pc = "resample_returned")

\* a geometry of two nodes resampled to four, in two steps
C19_Witness ==
    /\ e_pc = "resample_returned"
    /\ e_in.n_wdg = 2
    /\ data_encoding.n_wdg = 4
    /\ e_out.val.n_wdg = 4
    /\ e_out.val.layer_wdg = <<1, 1, 1>>

\* the first k segments of two geometries are the same: end nodes and layers
SameHead(a, b, k) ==
    /\ \A i \in 1..(k + 1) : a.coord_wdg[i] = b.coord_wdg[i] /\ a.width_wdg[i] = b.width_wdg[i]
    /\ \A i \in 1..k : a.layer_wdg[i] = b.layer_wdg[i]

\* the last k segments of two geometries are the same
SameTail(a, b, k) ==
    /\ \A i \in 0..k :
          /\ a.coord_wdg[a.n_wdg - i] = b.coord_wdg[b.n_wdg - i]
          /\ a.width_wdg[a.n_wdg - i] = b.width_wdg[b.n_wdg - i]
    /\ \A i \in 0..(k - 1) : a.layer_wdg[a.n_wdg - 1 - i] = b.layer_wdg[b.n_wdg - 1 - i]

\* C20: no step of get_resample inserts a node into a masked terminal
\* segment: the first n_mask_src segments and the last n_mask_sink segments of
\* the geometry (end nodes, widths, layer codes) are the same after the steps
\* as before.
C20_MaskedSegmentsKept ==
    e_pc \in {"resample_loop", "resample_returned"} =>
        LET m == e_in.n_wdg - 1
        IN  /\ SameHead(e_in, data_coil, Min2(data_encoding.n_mask_src, m))
            /\ SameTail(e_in, data_coil, Min2(data_encoding.n_mask_sink, m))

----------------------------------------------------------------------------
\* ---- the counters and the history of the monitor ----

\* the largest of the configured counts of the convergence parameters
LargestCount ==
    Max2(IF m_cfg.n_eval_conv = None THEN 0 ELSE m_cfg.n_eval_conv[1],
         Max2(IF m_cfg.n_eval_init = None THEN 0 ELSE m_cfg.n_eval_init[1],
              IF m_cfg.n_eval_max = None THEN 0 ELSE m_cfg.n_eval_max[1]))

\* C23: the history of objective values is bounded by the convergence
\* configuration: with the window configured, its length never exceeds the
\* window, nor any other configured count.
C23_HistoryBounded ==
    (m_cfg # None /\ m_cfg.n_eval_conv # None) => Len(mon.obj_list) <= LargestCount

\* the effect of one recording on the monitor
RecordingStep ==
    mon' # mon =>
        LET c == m_call[1]
            v == Head(c.vals)
        IN  /\ c.op = "set_cond" =>
                  /\ mon'.n_eval_cond = mon.n_eval_cond + 1
                  /\ mon'.n_cond_fail = mon.n_cond_fail + (IF v > 0 THEN 1 ELSE 0)
                  /\ mon'.n_cond_valid = mon.n_cond_valid + (IF v > 0 THEN 0 ELSE 1)
                  /\ mon'.obj_list = mon.obj_list
            /\ c.op = "set_obj" =>
                  /\ mon' = SetObjSingle(mon, v)
                  /\ mon'.obj_list = Append(mon.obj_list, v)
                  /\ m_call'[1].vals = Tail(c.vals)
                  /\ m_pc'[1] = IF Tail(c.vals) = <<>> THEN "release" ELSE "load"

\* C28: in every state reached by set_obj, set_cond and get_log calls,
\* n_eval_cond = n_cond_valid + n_cond_fail, a constraint value counting as
\* violated exactly when it is > 0; n_eval_obj is the length of the history;
\* the best objective is the minimum of the recorded values (+infinity with
\* none); a call with a paired sequence records its pairs one by one, each as
\* a scalar recording, in order.
C28_MonitorCounters ==
    /\ [](/\ mon.n_eval_cond = mon.n_cond_valid + mon.n_cond_fail
          /\ mon.n_eval_obj = Len(mon.obj_list)
          /\ mon.obj_best = IF mon.obj_list = <<>> THEN PInf
                            ELSE <<SetMin({mon.obj_list[i] : i \in 1..Len(mon.obj_list)})>>)
    /\ [][RecordingStep]_vars

\* a violated, a negative and a zero constraint value and a sequence of two
\* objective values have been recorded
C28_Witness ==
    /\ mon # None /\ s_pc = "off"
    /\ mon.n_cond_fail = 1 /\ mon.n_cond_valid = 2
    /\ mon.obj_list = <<2, 1>>
    /\ mon.obj_best = <<1>>
    /\ m_pc[1] = "idle"

\* C29: with the four convergence parameters configured and a window of at
\* least 1, get_convergence returns a boolean and raises nothing, whatever
\* number of objective values has been recorded.
C29_ConvergenceNeverRaises ==
    (/\ m_conv # <<>>
     /\ m_cfg.n_eval_max # None
     /\ m_cfg.n_eval_conv # None
     /\ m_cfg.n_eval_init # None
     /\ m_cfg.tol_conv_cmp # None
     /\ m_cfg.n_eval_conv[1] >= 1)
    => m_conv[1].ret \in {"True", "False"}

----------------------------------------------------------------------------
\* ---- the serial mode and the polling loop of QueuePool ----

\* C26: with zero workers get_loop computes the items in input order in the
\* calling thread (no task is ever queued for a worker), and the collect
\* callback is invoked once per item, right after that item's compute call and
\* before the next one, with a batch holding exactly that item's result and
\* with its position as processed count: nothing is buffered.
C26_SerialImmediate ==
    (q_pc # "off" /\ q_cfg.n_parallel = 0) =>
        /\ q_status = <<>> /\ q_ready = <<>> /\ q_out_list = <<>>
        /\ \A i \in 1..QTotal : q_calls[i] = IF i <= q_idx THEN 1 ELSE 0
        /\ Len(q_log) = IF q_pc = "raised" THEN q_idx - 1 ELSE q_idx
        /\ \A k \in 1..Len(q_log) :
              /\ q_log[k].batch = <<[idx |-> k, out |-> FctCallPool(Zip(q_args)[k])]>>
              /\ q_log[k].n_count = k
              /\ q_log[k].n_total = QTotal

\* a zero-worker run of MaxItems items, all of them computed and collected
C26_Witness ==
    /\ q_pc = "returned"
    /\ q_cfg.n_parallel = 0
    /\ QTotal = MaxItems
    /\ Len(q_log) = MaxItems
    /\ \A i \in 1..QTotal : q_calls[i] = 1

\* the results handed to the callback so far, followed by those still held
QHeld == QDelivered \o q_out_list

\* one step that is a timeout of the poll
TimeoutStep ==
    q_timeouts' = q_timeouts + 1 =>
        /\ q_n_count' = q_n_count
        /\ q_status' = q_status /\ q_ready' = q_ready /\ q_calls' = q_calls
        /\ \/ q_pc' = "poll" /\ q_ex' = "None" /\ QHeld' = QHeld
           \/ q_pc' = "join" /\ q_ex' = "CollectError" /\ q_out_list' = q_out_list
                 /\ q_log' = q_log
        /\ IF q_delay + q_cfg.delay_timeout > q_cfg.delay_collect
           THEN q_pc' = "poll" =>
                   /\ q_log' = QCollect(q_out_list, q_n_count, QTotal)
                   /\ q_out_list' = <<>>
           ELSE q_log' = q_log /\ q_out_list' = q_out_list /\ q_pc' = "poll"

\* one step that leaves the polling loop
LoopEndStep ==
    (q_pc = "poll" /\ q_pc' # "poll") =>
        /\ q_pc' = "join"
        /\ \/ q_ex' # "None"
           \/ \A i \in DOMAIN q_status : q_status[i] = "taken"

\* one step of the polling loop that invokes the callback and goes on polling
MidFlushStep ==
    (q_pc = "poll" /\ q_pc' = "poll" /\ q_log' # q_log) =>
        /\ q_delay + q_cfg.delay_timeout > q_cfg.delay_collect
        /\ Len(q_log') = Len(q_log) + 1
        /\ q_log'[Len(q_log')].n_count = q_n_count'
        /\ q_out_list' = <<>>
        /\ q_delay' = 0

\* C27: in the collector of QueuePool a timeout of the poll is not a failure and
\* cancels no evaluation: the timeout itself changes neither the processed count
\* nor the results (those delivered followed by those accumulated stay the
\* same, no task changes its state) and the loop goes on polling unless the
\* callback raised; the loop ends only when every completion has been taken or
\* with an exception; between the first and the last flush the callback is
\* invoked only when the time since the last flush exceeds delay_collect, and
\* the accumulator is empty afterwards.
C27_TimeoutIsRetry ==
    [][TimeoutStep /\ LoopEndStep /\ MidFlushStep]_vars

\* a run that returned normally after a timeout of the poll and a flush between
\* the first and the last one
C27_Witness ==
    /\ q_pc = "returned"
    /\ q_cfg.n_parallel > 0
    /\ q_timeouts >= 1
    /\ q_ex = "None"
    /\ Len(q_log) >= 3
    /\ QTotal >= 2

----------------------------------------------------------------------------
\* _PostgreSql: the decorator _retry_fail around run_cmd, run_batch, _run_fetch

\* largest value of connection["retry"]
MaxSqlRetry == 2

\* how an execution of the decorated function ends: it returns, or it raises
\* psycopg2.OperationalError, another psycopg2.Error, or another exception
SqlResults == {"ok", "OperationalError", "Error", "Other"}
\* psycopg2.Error and its subclasses
SqlErrors == {"OperationalError", "Error"}
\* how connect() ends: psycopg2.connect raises (self.conn is not assigned), or
\* set_session raises on the new connection, or both return
ConnectResults == {"ok", "OperationalError", "SessionError"}

InitSql ==
    /\ QOff /\ FOff /\ MOff /\ SOff /\ EOff
    /\ d_cfg \in [robust : BOOLEAN, retry : 0..MaxSqlRetry]
    /\ d_pc = "idle"
    /\ d_i = 0
    /\ d_conn = [id |-> 0, open |-> TRUE]
    /\ d_log = <<>>
    /\ d_ex = <<>>
    /\ d_out = None

\* an entry of the history: the event, the connection it acted on, its result
SqlEvent(ev, res) == [ev |-> ev, conn |-> d_conn.id, res |-> res]

\* lines 139-141: the operation is tried with the existing connection; an
\* OperationalError is raised again at once when robust is false (143-144);
\* any other exception is not caught by the decorator
SqlFirst(res) ==
    /\ d_pc = "idle"
    /\ d_log' = Append(d_log, SqlEvent("exec", res))
    /\ IF res = "ok"
       THEN d_pc' = "returned" /\ d_out' = Ret(<<"result">>) /\ UNCHANGED <<d_ex, d_i>>
       ELSE IF res = "OperationalError"
       THEN IF d_cfg.robust
            THEN /\ d_pc' = "loop"
                 /\ d_i' = 0
                 /\ d_ex' = <<[ex |-> res, at |-> Len(d_log) + 1]>>
                 /\ UNCHANGED d_out
            ELSE /\ d_pc' = "raised"
                 /\ d_out' = Raise([ex |-> res, at |-> Len(d_log) + 1])
                 /\ d_ex' = <<[ex |-> res, at |-> Len(d_log) + 1]>>
                 /\ UNCHANGED d_i
       ELSE /\ d_pc' = "raised"
            /\ d_out' = Raise([ex |-> res, at |-> Len(d_log) + 1])
            /\ UNCHANGED <<d_ex, d_i>>
    /\ UNCHANGED <<d_cfg, d_conn>>
    /\ UNCHANGED <<qvars, fvars, mvars, svars, evars>>

\* a retry loop that runs once more than configured
SqlLoopExtra ==
    /\ d_pc = "loop"
    /\ IF d_i < d_cfg.retry + 1
       THEN d_pc' = "close" /\ UNCHANGED d_out
       ELSE d_pc' = "raised" /\ d_out' = Raise(d_ex[1])
    /\ UNCHANGED <<d_cfg, d_i, d_conn, d_log, d_ex>>
    /\ UNCHANGED <<qvars, fvars, mvars, svars, evars>>

\* lines 147 and 160: for i in range(self.retry), and raise ex after the loop
SqlLoop ==
    /\ d_pc = "loop"
    /\ IF d_i < d_cfg.retry
       THEN d_pc' = "close" /\ UNCHANGED d_out
       ELSE d_pc' = "raised" /\ d_out' = Raise(d_ex[1])
    /\ UNCHANGED <<d_cfg, d_i, d_conn, d_log, d_ex>>
    /\ UNCHANGED <<qvars, fvars, mvars, svars, evars>>

\* lines 157-158: except psycopg2.Error: time.sleep(self.delay), next iteration;
\* another exception leaves the decorator
SqlFailed(res) ==
    IF res \in SqlErrors \union {"SessionError"}
    THEN d_pc' = "loop" /\ d_i' = d_i + 1 /\ UNCHANGED d_out
    ELSE /\ d_pc' = "raised"
         /\ d_out' = Raise([ex |-> res, at |-> Len(d_log) + 1])
         /\ UNCHANGED d_i

\* line 150: self.close() closes the old connection
SqlClose(res) ==
    /\ d_pc = "close"
    /\ d_log' = Append(d_log, SqlEvent("close", res))
    /\ IF res = "ok"
       THEN /\ d_conn' = [d_conn EXCEPT !.open = FALSE]
            /\ d_pc' = "connect"
            /\ UNCHANGED <<d_i, d_out>>
       ELSE /\ SqlFailed(res)
            /\ UNCHANGED d_conn
    /\ UNCHANGED <<d_cfg, d_ex>>
    /\ UNCHANGED <<qvars, fvars, mvars, svars, evars>>

\* line 153: self.connect() opens a new connection (lines 164-170)
SqlConnect(res) ==
    /\ d_pc = "connect"
    /\ d_conn' = IF res = "OperationalError" THEN d_conn
                 ELSE [id |-> d_conn.id + 1, open |-> TRUE]
    /\ d_log' = Append(d_log, [ev |-> "connect", conn |-> d_conn'.id, res |-> res])
    /\ IF res = "ok"
       THEN d_pc' = "exec" /\ UNCHANGED <<d_i, d_out>>
       ELSE SqlFailed(res)
    /\ UNCHANGED <<d_cfg, d_ex>>
    /\ UNCHANGED <<qvars, fvars, mvars, svars, evars>>

\* line 156: return function(self, *args) with the new connection
SqlRetry(res) ==
    /\ d_pc = "exec"
    /\ d_log' = Append(d_log, SqlEvent("exec", res))
    /\ IF res = "ok"
       THEN d_pc' = "returned" /\ d_out' = Ret(<<"result">>) /\ UNCHANGED d_i
       ELSE SqlFailed(res)
    /\ UNCHANGED <<d_cfg, d_conn, d_ex>>
    /\ UNCHANGED <<qvars, fvars, mvars, svars, evars>>

NextSql ==
    \/ \E res \in SqlResults : SqlFirst(res)
    \/ SqlLoop
    \/ \E res \in {"ok", "Error"} : SqlClose(res)
    \/ \E res \in ConnectResults : SqlConnect(res)
    \/ \E res \in SqlResults : SqlRetry(res)

SpecSql == InitSql /\ [][NextSql]_vars

\* the positions of the history where the operation was executed
SqlExecs == {p \in 1..Len(d_log) : d_log[p].ev = "exec"}
\* no step of the history ended with an exception that is not a database error
SqlOnlyDbErrors == \A p \in 1..Len(d_log) : d_log[p].res # "Other"

\* C30: an operation under the reconnect-and-retry decorator is executed at
\* most 1 + retry times. When the first attempt raises an operational error and
\* robust is false, this error is raised at once and nothing is closed or
\* opened. When robust is true, every further execution comes right after the
\* old connection was closed and a new one opened, at most retry times; the
\* first execution that succeeds is the last one and its result is returned;
\* when every attempt has failed with a database error, the operational error
\* of the first attempt is the one raised.
C30_RetryBounded ==
    d_pc # "off" =>
        /\ Cardinality(SqlExecs) <= 1 + d_cfg.retry
        /\ Cardinality({p \in 1..Len(d_log) : d_log[p].ev = "close"}) <= d_cfg.retry
        /\ (d_log # <<>> /\ d_log[1].res = "OperationalError" /\ ~d_cfg.robust) =>
              /\ d_pc = "raised"
              /\ d_log = <<[ev |-> "exec", conn |-> 0, res |-> "OperationalError"]>>
              /\ d_out = Raise([ex |-> "OperationalError", at |-> 1])
        /\ \A p \in SqlExecs : p > 1 =>
              /\ d_cfg.robust
              /\ p >= 3
              /\ d_log[p - 2] = [ev |-> "close", conn |-> d_log[p].conn - 1, res |-> "ok"]
              /\ d_log[p - 1] = [ev |-> "connect", conn |-> d_log[p].conn, res |-> "ok"]
              /\ \A r \in SqlExecs : r < p => d_log[r].conn < d_log[p].conn
        /\ \A p \in SqlExecs : d_log[p].res = "ok" =>
              /\ p = Len(d_log)
              /\ d_pc = "returned"
              /\ d_out = Ret(<<"result">>)
        /\ d_pc = "returned" => d_log[Len(d_log)] = SqlEvent("exec", "ok")
        /\ (d_pc = "raised" /\ SqlOnlyDbErrors /\ d_log[1].res = "OperationalError") =>
              /\ d_out = Raise([ex |-> "OperationalError", at |-> 1])
              /\ d_cfg.robust => d_i = d_cfg.retry
        /\ (d_pc = "raised" /\ d_log[1].res # "OperationalError") =>
              /\ Len(d_log) = 1
              /\ d_out = Raise([ex |-> d_log[1].res, at |-> 1])

\* robust, two retries: the first retry could not connect, the second executed
\* the operation again and failed, and the first error was raised
C30_Witness ==
    /\ d_pc = "raised"
    /\ d_cfg = [robust |-> TRUE, retry |-> 2]
    /\ Cardinality(SqlExecs) = 2
    /\ Len(d_log) = 6
    /\ d_log[3].res = "OperationalError"
    /\ d_log[6].res = "Error"
    /\ d_out = Raise([ex |-> "OperationalError", at |-> 1])

----------------------------------------------------------------------------
\* ---- rejected designs and the database ----

\* the design records of the outcomes that were not rejected, in order
KeptOf(outs) ==
    LET kept == SelectSeq(outs, LAMBDA o : o.kind = "ok")
    IN  [i \in 1..Len(kept) |-> [obj |-> kept[i].val]]

\* C22: a rejected outcome (None) is never handed to add_design. In the
\* collect callback of the dataset run every frame holds exactly the records
\* of the batch that were not rejected, while the processed_count of the
\* latest call counts every result delivered so far, rejected ones included. In the objective
\* wrapper of the optimizer the frame holds exactly the records that were not
\* rejected, while the returned objective has one value per evaluated vector,
\* rejected ones included. A rejection raises nothing: an exception comes
\* from a compute call that raised, from the callback, or from a malformed
\* input of the wrapper.
C22_RejectedNeverStored ==
    /\ q_pc # "off" =>
          /\ \A k \in 1..Len(q_log) :
                /\ \A j \in 1..Len(q_log[k].added) : q_log[k].added[j] # None
                /\ q_log[k].added =
                      KeptOf([j \in 1..Len(q_log[k].batch) |-> q_log[k].batch[j].out])
          /\ q_log # <<>> => q_log[Len(q_log)].n_count = Len(QDelivered)
          /\ q_ex = "ComputeError" => QFailed # {}
          /\ q_pc = "raised" => q_ex \in {"ComputeError", "CollectError"}
    /\ f_pc # "off" =>
          /\ \A k \in 1..Len(f_store) :
                /\ \A j \in 1..Len(f_store[k]) : f_store[k][j] # None
                /\ f_store[k] = KeptOf(f_out)
          /\ f_pc = "obj_returned" =>
                /\ Len(f_store) = 1
                /\ f_ret # <<>>
                /\ Len(f_ret[1].obj) = Len(f_out)
                /\ \A i \in 1..Len(f_out) :
                      f_ret[1].obj[i] = FctCallPool(Zip(f_args)[i]).val
          /\ f_pc # "obj_returned" => f_store = <<>> /\ f_ret = <<>>
          /\ f_pc \in {"raised", "fct_raised"} => FFailed # {}

\* the wrapper returned the objective values of a matrix with a rejected and a
\* kept design, and only the kept design went to the database
C22_Witness ==
    /\ f_pc = "obj_returned"
    /\ f_ret[1].ndim = 2
    /\ \E i \in 1..Len(f_out) : f_out[i].kind = "none"
    /\ \E i \in 1..Len(f_out) : f_out[i].kind = "ok"
    /\ Len(f_store[1]) < Len(f_ret[1].obj)
    /\ f_store[1] # <<>>

----------------------------------------------------------------------------
\* ---- the fixed variables and the bounds: get_fixed, get_bnd ----

\* Bound: declared number of pinned nodes of a terminal, and length of the
\* arrays given for it.
MaxPin == 2

\* the not-a-number among the fractions, and np.isnan of a vector of fractions
QNaN == [n |-> 0, d |-> 0]
IsNanQ(x) == [k \in 1..Len(x) |-> x[k].d = 0]

\* np.full(len, None, dtype=object)
FullNone(len) == [i \in 1..len |-> None]

\* the positions (from 1) of a[:+n] in an array of len entries
SrcSlice(len, n) == 1..Min2(n, len)

\* a sink slice that leaves out the last entry
SinkSliceShort(len, n) == (Max2(len - n, 0) + 1)..(len - 1)

\* the positions (from 1) of a[-n:] in an array of len entries
SinkSlice(len, n) == (Max2(len - n, 0) + 1)..len

\* a[lo:hi] = val on an object array: val has as many entries as the slice,
\* or a single one that numpy broadcasts to every position of the slice
AssignSlice(a, idx, val) ==
    LET k == Cardinality(idx)
        lo == IF idx = {} THEN 0 ELSE SetMin(idx) - 1
    IN  IF Len(val) = k
        THEN Ret([i \in 1..Len(a) |-> IF i \in idx THEN <<val[i - lo]>> ELSE a[i]])
        ELSE IF Len(val) = 1
        THEN Ret([i \in 1..Len(a) |-> IF i \in idx THEN <<val[1]>> ELSE a[i]])
        ELSE Raise("ValueError")

\* lines 208-211 and 214-217: the three assignments of one terminal, on the
\* arrays <<coord_wdg, width_wdg, layer_wdg>>
AssignTerminal(arrs, idx_node, idx_layer, geom) ==
    LET c == AssignSlice(arrs[1], idx_node, geom.coord)
        w == AssignSlice(arrs[2], idx_node, geom.width)
        l == AssignSlice(arrs[3], idx_layer, geom.layer)
    IN  IF c.ex # "None" THEN c
        ELSE IF w.ex # "None" THEN w
        ELSE IF l.ex # "None" THEN l
        ELSE Ret(<<c.val, w.val, l.val>>)

\* a[a != None] = _encode_float(a[a != None], ...)
EncodeSet(a, val_min, val_max, norm_min, norm_max) ==
    [i \in 1..Len(a) |->
        IF a[i] = None THEN None
        ELSE <<EncodeFloat(ToFloat(a[i][1]), val_min, val_max, norm_min, norm_max)>>]

\* x.astype(np.float64) of an object array: None becomes the not-a-number
AsFloat64(x) == [k \in 1..Len(x) |-> IF x[k] = None THEN QNaN ELSE x[k][1]]

\* get_fixed, lines 179-236
GetFixed(de) ==
    LET n == de.n_wdg
        init == <<FullNone(n), FullNone(n), FullNone(n - 1)>>
        src == IF de.n_add_src > 0
               THEN AssignTerminal(init, SrcSlice(n, de.n_add_src),
                                   SrcSlice(n - 1, de.n_add_src), de.src_geom)
               ELSE Ret(init)
        sink == IF de.n_add_sink > 0
                THEN AssignTerminal(src.val, SinkSlice(n, de.n_add_sink),
                                    SinkSlice(n - 1, de.n_add_sink), de.sink_geom)
                ELSE src
    IN  IF src.ex # "None" THEN src
        ELSE IF sink.ex # "None" THEN sink
        ELSE LET coord_wdg == sink.val[1]
                 x_wdg == [i \in 1..n |->
                             IF coord_wdg[i] = None THEN None ELSE <<coord_wdg[i][1][1]>>]
                 y_wdg == [i \in 1..n |->
                             IF coord_wdg[i] = None THEN None ELSE <<coord_wdg[i][1][2]>>]
                 idx_layer == [i \in 1..(n - 1) |-> sink.val[3][i] # None]
                 given == BoolIndex([i \in 1..(n - 1) |->
                                       IF idx_layer[i] THEN sink.val[3][i][1] ELSE 0],
                                    idx_layer)
                 codes == EncodeInt(given, de.layer_list)
             IN  IF codes.ex # "None" THEN codes
                 ELSE LET x_split ==
                            <<EncodeSet(x_wdg, de.x_min, de.x_max, de.norm_min, de.norm_max),
                              EncodeSet(y_wdg, de.y_min, de.y_max, de.norm_min, de.norm_max),
                              EncodeSet(sink.val[2], de.width_min, de.width_max,
                                        de.norm_min, de.norm_max),
                              [i \in 1..(n - 1) |->
                                  IF idx_layer[i]
                                  THEN <<codes.val[CountUpTo(idx_layer, i)]>>
                                  ELSE None]>>
                          x == VariableZip(n, x_split)
                      IN  IF x.ex # "None" THEN x ELSE Ret(AsFloat64(x.val))

\* np.full(len, v)
Full(len, v) == [i \in 1..len |-> v]

\* a get_bnd that keeps the entries of the fixed variables
GetBndUnfiltered(xfixed, de) ==
    LET n == de.n_wdg
        lb == VariableZip(n, <<Full(n, ToFloat(de.norm_min)), Full(n, ToFloat(de.norm_min)),
                               Full(n, ToFloat(de.norm_min)), Full(n - 1, ToFloat(0))>>)
        ub == VariableZip(n, <<Full(n, ToFloat(de.norm_max)), Full(n, ToFloat(de.norm_max)),
                               Full(n, ToFloat(de.norm_max)),
                               Full(n - 1, ToFloat(Len(de.layer_list) - 1))>>)
        discrete == VariableZip(n, <<Full(n, FALSE), Full(n, FALSE), Full(n, FALSE),
                                     Full(n - 1, TRUE)>>)
        idx_var == IsNanQ(xfixed)
    IN  Ret([n_var |-> CountUpTo(idx_var, Len(idx_var)),
             discrete |-> discrete.val, lb |-> lb.val, ub |-> ub.val])

\* get_bnd, lines 268-321: the three interleaved arrays, indexed with the
\* boolean array np.isnan(x_fixed)
GetBnd(xfixed, de) ==
    LET n == de.n_wdg
        lb == VariableZip(n, <<Full(n, ToFloat(de.norm_min)), Full(n, ToFloat(de.norm_min)),
                               Full(n, ToFloat(de.norm_min)), Full(n - 1, ToFloat(0))>>)
        ub == VariableZip(n, <<Full(n, ToFloat(de.norm_max)), Full(n, ToFloat(de.norm_max)),
                               Full(n, ToFloat(de.norm_max)),
                               Full(n - 1, ToFloat(Len(de.layer_list) - 1))>>)
        discrete == VariableZip(n, <<Full(n, FALSE), Full(n, FALSE), Full(n, FALSE),
                                     Full(n - 1, TRUE)>>)
        idx_var == IsNanQ(xfixed)
    IN  IF lb.ex # "None" THEN lb
        ELSE IF Len(xfixed) # Len(lb.val) THEN Raise("IndexError")
        ELSE Ret([n_var |-> CountUpTo(idx_var, Len(idx_var)),
                  discrete |-> BoolIndex(discrete.val, idx_var),
                  lb |-> BoolIndex(lb.val, idx_var),
                  ub |-> BoolIndex(ub.val, idx_var)])

\* the arrays given for a terminal: k coordinates, widths and layers, each
\* array with its own number of entries
TermCoord(k, x) == [i \in 1..k |-> <<x, i>>]
TermWidth(k) == [i \in 1..k |-> i + 1]
TermGeoms(x) ==
    {[coord |-> TermCoord(a, x), width |-> TermWidth(b), layer |-> [i \in 1..c |-> i]] :
        a \in 0..MaxPin, b \in 0..MaxPin, c \in 0..MaxPin}

\* the three arrays of a terminal have the same number of entries
SameLengths(geom) ==
    Len(geom.coord) = Len(geom.width) /\ Len(geom.width) = Len(geom.layer)

\* the source and sink arrays: the arrays of one terminal at least have the
\* same number of entries
TermPairs ==
    {gp \in TermGeoms(0) \X TermGeoms(3) : SameLengths(gp[1]) \/ SameLengths(gp[2])}

\* the encodings with their terminals
FixedEncodings ==
    {[n_wdg |-> n, layer_list |-> ll,
      x_min |-> -2, x_max |-> 5, y_min |-> 0, y_max |-> 3,
      width_min |-> 1, width_max |-> 6, norm_min |-> -1, norm_max |-> 1,
      n_mask_src |-> 0, n_mask_sink |-> 0,
      n_add_src |-> ps, n_add_sink |-> pk, src_geom |-> gp[1], sink_geom |-> gp[2]] :
        n \in 2..MaxNodesEnc, ll \in EncLayerLists,
        ps \in 0..MaxPin, pk \in 0..MaxPin, gp \in TermPairs}

InitFixed ==
    /\ QOff /\ FOff /\ MOff /\ SOff /\ DOff
    /\ e_pc = "encoding"
    /\ data_encoding \in FixedEncodings
    /\ x_fixed = None /\ x_free = None /\ x_all = None /\ data_coil = None
    /\ e_out = None /\ e_in = None

\* wrapper_optim.get_bnd_init, line 92: x_fixed = get_fixed(data_encoding)
EGetFixed ==
    /\ e_pc = "encoding"
    /\ LET r == GetFixed(data_encoding)
       IN  /\ e_out' = r
           /\ IF r.ex = "None"
              THEN e_pc' = "fixed" /\ x_fixed' = r.val
              ELSE e_pc' = "raised" /\ UNCHANGED x_fixed
    /\ UNCHANGED <<data_encoding, x_free, x_all, data_coil, e_in>>
    /\ UNCHANGED <<qvars, fvars, mvars, svars, dvars>>

\* wrapper_optim.get_bnd_init, line 95: bnd = get_bnd(x_fixed, data_encoding)
EGetBnd ==
    /\ e_pc = "fixed"
    /\ e_out' = GetBnd(x_fixed, data_encoding)
    /\ e_pc' = "bounded"
    /\ UNCHANGED <<data_encoding, x_fixed, x_free, x_all, data_coil, e_in>>
    /\ UNCHANGED <<qvars, fvars, mvars, svars, dvars>>

NextFixed == EGetFixed \/ EGetBnd

SpecFixed == InitFixed /\ [][NextFixed]_vars

\* the unset positions of the mask (from 0), in increasing order
FreePositions == BoolIndex([p \in 1..Len(x_fixed) |-> p - 1], IsNanQ(x_fixed))

\* C21: for N = 3 with one pinned source node and one pinned sink node,
\* get_fixed returns a mask of length 11 with 8 fixed and 3 unset positions:
\* the unset ones are the x, y and width of the middle node (positions 4, 5, 6)
\* and both layer slots (positions 3 and 7) are fixed; get_bnd then returns
\* exactly 3 entries, all continuous. With one coordinate, one width and one
\* layer of the code list per terminal, get_fixed does not raise.
C21_ThreeNodesTwoPinned ==
    (/\ e_pc \in {"fixed", "bounded", "raised"}
     /\ data_encoding.n_wdg = 3
     /\ data_encoding.n_add_src = 1 /\ data_encoding.n_add_sink = 1) =>
        /\ e_pc \in {"fixed", "bounded"} =>
              /\ Len(x_fixed) = 11
              /\ FreePositions = <<4, 5, 6>>
              /\ Cardinality({p \in 1..11 : x_fixed[p] # QNaN}) = 8
              /\ x_fixed[4] # QNaN /\ x_fixed[8] # QNaN
        /\ e_pc = "bounded" =>
              /\ e_out.ex = "None"
              /\ e_out.val.n_var = 3
              /\ e_out.val.discrete = <<FALSE, FALSE, FALSE>>
              /\ Len(e_out.val.lb) = 3 /\ Len(e_out.val.ub) = 3
        /\ (/\ Len(data_encoding.src_geom.coord) = 1
            /\ Len(data_encoding.src_geom.width) = 1
            /\ Len(data_encoding.src_geom.layer) = 1
            /\ Len(data_encoding.sink_geom.coord) = 1
            /\ Len(data_encoding.sink_geom.width) = 1
            /\ Len(data_encoding.sink_geom.layer) = 1) => e_pc # "raised"

\* the bounds of three nodes with the first and the last one pinned
C21_Witness ==
    /\ e_pc = "bounded"
    /\ data_encoding.n_wdg = 3
    /\ data_encoding.n_add_src = 1 /\ data_encoding.n_add_sink = 1
    /\ e_out.val.n_var = 3
    /\ x_fixed[1] = Q(-3, 7)

\* the arrays of a pinned terminal have the declared number of entries
TerminalMatches(n_add, geom) ==
    n_add > 0 =>
        /\ Len(geom.coord) = n_add
        /\ Len(geom.width) = n_add
        /\ Len(geom.layer) = n_add

\* C24: get_fixed fails, and returns no mask, whenever the coordinate, width
\* or layer array of a pinned terminal has a number of entries other than the
\* declared number of pinned nodes of this terminal, an array with a single
\* entry for a larger declared number included.
C24_MismatchRejected ==
    e_pc \in {"fixed", "bounded"} =>
        /\ TerminalMatches(data_encoding.n_add_src, data_encoding.src_geom)
        /\ TerminalMatches(data_encoding.n_add_sink, data_encoding.sink_geom)

\* C25: get_bnd returns one entry per unset position of the mask and none for
\* a fixed one, in the order of the unset positions, which is the order of the
\* elements get_reduce keeps; an entry is discrete exactly when its position
\* is a layer position (3 modulo 4); a discrete entry has the bounds
\* [0, len(layer_list) - 1], a continuous one [norm_min, norm_max]; with no
\* pinned node there are 4N - 1 entries.
C25_BoundsPerFreePosition ==
    e_pc = "bounded" =>
        /\ e_out.ex = "None"
        /\ LET b == e_out.val
               free == FreePositions
               mask == [p \in 1..Len(x_fixed) |-> IF x_fixed[p] = QNaN THEN NaN ELSE 0]
               tags == [p \in 1..Len(x_fixed) |-> IF x_fixed[p] = QNaN THEN p - 1 ELSE 0]
           IN  /\ b.n_var = Len(free)
               /\ Len(b.discrete) = Len(free) /\ Len(b.lb) = Len(free)
               /\ Len(b.ub) = Len(free)
               /\ GetReduce(tags, mask) = Ret(free)
               /\ \A i \in 1..Len(free) :
                     /\ b.discrete[i] <=> (free[i] % 4 = 3)
                     /\ b.discrete[i] =>
                           /\ b.lb[i] = ToFloat(0)
                           /\ b.ub[i] = ToFloat(Len(data_encoding.layer_list) - 1)
                     /\ ~b.discrete[i] =>
                           /\ b.lb[i] = ToFloat(data_encoding.norm_min)
                           /\ b.ub[i] = ToFloat(data_encoding.norm_max)
               /\ (data_encoding.n_add_src = 0 /\ data_encoding.n_add_sink = 0) =>
                     b.n_var = 4 * data_encoding.n_wdg - 1

\* the bounds of three nodes with a pinned source node only: the layer slot
\* of the second segment is among the seven entries
C25_Witness ==
    /\ e_pc = "bounded"
    /\ data_encoding.n_wdg = 3
    /\ data_encoding.n_add_src = 1 /\ data_encoding.n_add_sink = 0
    /\ e_out.val.n_var = 7
    /\ e_out.val.discrete[4]
    /\ e_out.val.ub[4] = ToFloat(Len(data_encoding.layer_list) - 1)

====
